---------------------------- MODULE Spec2Model ----------------------------
(***************************************************************************)
(* The server-side session of the WellMares boop counter                   *)
(* (WellMaresWSHandler, src/unnamed/part_004) together with the store it   *)
(* talks to, as a state machine.                                           *)
(*                                                                         *)
(* Time is counted in ticks.  The places and limits of the program are     *)
(* kept in their order but scaled so that every limit is reached inside    *)
(* the explored horizon:                                                   *)
(*     GBC_SYNC_INTERVAL (250 ms)      1 tick                              *)
(*     HEARTBEAT_TIMEOUT (30 000 ms)   2 ticks                             *)
(*     ONE_MINUTE (60 000 ms)          3 ticks                             *)
(*     ONE_HOUR (3 600 000 ms)         6 ticks                             *)
(*     BPM_LIMIT (1 000)               2 boops                             *)
(*     BPH_LIMIT (10 000)              3 boops                             *)
(* CD_FAIL_LIMIT (5) and the width of an id (11 digits) are unscaled.     *)
(*                                                                         *)
(* Scheduling: a session is single-threaded, so every handler is one       *)
(* action.  Timers are punctual: a timer that is due runs before the clock *)
(* advances and before a client frame of the same instant is dispatched.   *)
(* Store operations complete, and store events are delivered, at any later *)
(* moment (section 6.2 of the specification: every store operation and     *)
(* every subscription callback is asynchronous).  The children a           *)
(* subscription finds are delivered while the session initializes.         *)
(* The model follows one session object at a time; the next session of the *)
(* same client starts once the previous one released its store handle.     *)
(***************************************************************************)
EXTENDS Integers, Sequences, FiniteSets, TLC

\* ------------------------------------------------------------ constants
GBC_SYNC_INTERVAL == 1
HEARTBEAT_TIMEOUT == 2
ONE_MINUTE == 3
ONE_HOUR == 6
BPH_SYNC_INTERVAL == ONE_MINUTE
BPM_LIMIT == 2
BPH_LIMIT == 3
CD_FAIL_LIMIT == 5
BPH_VALID_UNTIL == 0
BPH_CHANGE == 1
MAX_ID_DIGITS == 11
NO_HEARTBEAT_ERRCODE == 1001
TOO_MANY_COOLDOWN_FAILS_ERRCODE == 1002
INTERNAL_SERVER_ERROR_ERRCODE == 1000
\* The code the transport reports when the client closes the channel.
CLIENT_CLOSE_CODE == 1005
\* The client's delays before it connects again, in ms.
BACKOFF_BASE_MS == 1000
BACKOFF_MAX_MS == 30000

PROTO_HEARTBEAT == "h"
PROTO_BOOP_REQUEST == "b"
PROTO_COOLDOWN_QUERY == "d"
PROTO_BOOP_REPLY == "b"
PROTO_BOOP_REJECT == "r"
PROTO_COOLDOWN_REPLY == "d"
PROTO_INVALID == "i"
PROTO_BOOP_COUNT == "c"

\* --------------------------------------------------------------- bounds
\* The clock runs from 1 to MaxTime.
MaxTime == 4
\* Increments of gbc by other sessions.
MaxExternal == 1
\* Session objects of the client, one after the other.
MaxSessions == 2
\* Entries of boops-per-hour/<id> that earlier sessions left in the store.
MaxInitEntries == 1
\* The value of boop-count when the first session starts.
StartGBC == 35
\* The last instant of the clock where two interval syncs of the BPH ledger
\* are followed.
MaxLiveTime == 7
\* Closes in a row that the client answers with a backoff timer.
MaxAttempts == 6
\* Entries written to boops-per-hour/<id> by others than the session, and
\* child-added events the store sends a second time.
MaxStray == 2
MaxRepeats == 2
\* Entries of the ledger the walk of #getCooldown starts from.
MaxWalkEntries == 2
\* Requests the page makes of one MareConnection, of both kinds together.
MaxRequests == 2

\* ---------------------------------------------------------------- codec
Max(a, b) == IF a >= b THEN a ELSE b

Digits36 ==
    << "0", "1", "2", "3", "4", "5", "6", "7", "8", "9", "a", "b", "c",
       "d", "e", "f", "g", "h", "i", "j", "k", "l", "m", "n", "o", "p",
       "q", "r", "s", "t", "u", "v", "w", "x", "y", "z" >>

\* [\da-z]
Digit36Set == { Digits36[i] : i \in 1..36 }

IsDigit36(c) == c \in Digit36Set

DigitVal(c) == (CHOOSE i \in 1..36 : Digits36[i] = c) - 1

\* parseInt(s, 36) of a string of base-36 digits
RECURSIVE ParseInt36(_)
ParseInt36(s) ==
    IF s = << >> THEN 0
    ELSE ParseInt36(SubSeq(s, 1, Len(s) - 1)) * 36 + DigitVal(s[Len(s)])

\* n.toString(36)
RECURSIVE ToString36(_)
ToString36(n) ==
    IF n < 36 THEN << Digits36[n + 1] >>
    ELSE ToString36(n \div 36) \o << Digits36[(n % 36) + 1] >>

\* data.startsWith(tag)
StartsWith(data, tag) == Len(data) >= 1 /\ data[1] = tag

\* MatchId without the upper bound of the quantifier: {1,}.
MatchId_Unbounded(data) ==
    /\ Len(data) - 1 >= 1
    /\ \A i \in 2..Len(data) : IsDigit36(data[i])

\* data.slice(1).match(/^([\da-z]{1,11})$/)
MatchId(data) ==
    /\ Len(data) - 1 >= 1
    /\ Len(data) - 1 <= MAX_ID_DIGITS
    /\ \A i \in 2..Len(data) : IsDigit36(data[i])

\* The frames the server sends, as the strings it builds.
BoopReplyFrame(id) == << PROTO_BOOP_REPLY >> \o ToString36(id)
BoopRejectFrame(id, ms) ==
    << PROTO_BOOP_REJECT >> \o ToString36(id) \o << "," >> \o ToString36(ms)
CooldownReplyFrame(id) == << PROTO_COOLDOWN_REPLY >> \o ToString36(id)
CooldownReplyMsFrame(id, ms) ==
    << PROTO_COOLDOWN_REPLY >> \o ToString36(id) \o << "," >> \o ToString36(ms)
BoopCountFrame(n) == << PROTO_BOOP_COUNT >> \o ToString36(n)

\* ------------------------------------------------------- wide integers
\* An integer of up to 11 base-36 digits is below 36^11 < 2^57.  It is kept
\* as three limbs << a, b, c >> of 19 bits, a * 2^38 + b * 2^19 + c, so that
\* the arithmetic of the codec is done at the width the digits have.
Limb == 2^19

WZero == << 0, 0, 0 >>

\* The carries of the limbs taken up.
WNorm(t) ==
    LET b1 == t[2] + t[3] \div Limb
    IN  << t[1] + b1 \div Limb, b1 % Limb, t[3] % Limb >>

\* The integer a sequence of base-36 digits denotes.
RECURSIVE WValue(_)
WValue(s) ==
    IF s = << >> THEN WZero
    ELSE LET t == WValue(SubSeq(s, 1, Len(s) - 1))
         IN  WNorm(<< t[1] * 36, t[2] * 36, t[3] * 36 + DigitVal(s[Len(s)]) >>)

\* << t div 36, t mod 36 >>
WDivMod36(t) ==
    LET b1 == (t[1] % 36) * Limb + t[2]
        c1 == (b1 % 36) * Limb + t[3]
    IN  << << t[1] \div 36, b1 \div 36, c1 \div 36 >>, c1 % 36 >>

\* The base-36 digits of an integer, unpadded.
RECURSIVE WDigits(_)
WDigits(t) ==
    IF t[1] = 0 /\ t[2] = 0 /\ t[3] < 36 THEN << Digits36[t[3] + 1] >>
    ELSE WDigits(WDivMod36(t)[1]) \o << Digits36[WDivMod36(t)[2] + 1] >>

\* t >= 2^53: the integers from here on are not all Number values.
Unsafe(t) == t[1] >= 2^15

\* The bits of t below the 53 a Number keeps of it: 1..4 for 2^53 <= t < 2^57.
LowBits(t) ==
    IF t[1] >= 2^18 THEN 4
    ELSE IF t[1] >= 2^17 THEN 3
    ELSE IF t[1] >= 2^16 THEN 2
    ELSE IF t[1] >= 2^15 THEN 1
    ELSE 0

\* The Number value of the integer t: t rounded to 53 significant bits, to
\* the nearest, a tie to the even one.
ToNumber(t) ==
    LET q == 2^LowBits(t)
        low == t[3] % q
        down == << t[1], t[2], t[3] - low >>
        odd == (t[3] \div q) % 2 = 1
        up == 2 * low > q \/ (2 * low = q /\ odd)
    IN  IF up THEN WNorm(<< down[1], down[2], down[3] + q >>) ELSE down

\* parseInt(digits, 36)
ParseInt36Wide(digits) == ToNumber(WValue(digits))

\* The integer digits of n.toString(36) for a Number n >= 2^53 when the
\* digits the Number does not hold are written as 0: n / 36 is computed as
\* a Number (rounded to 53 bits, which takes it to the next integer when its
\* fraction is that near to 1), the digits of its integer part are written
\* and a 0 after them.
ZeroFilled(n) ==
    LET dm == WDivMod36(n)
        q == dm[1]
        r == dm[2]
        next == \/ q[1] >= 2^13 /\ r >= 28
                \/ q[1] >= 2^12 /\ q[1] < 2^13 /\ r >= 32
                \/ q[1] >= 2^11 /\ q[1] < 2^12 /\ r >= 34
        int == IF next THEN WNorm(<< q[1], q[2], q[3] + 1 >>) ELSE q
    IN  WDigits(int) \o << "0" >>

\* The strings n.toString(36) may be for the Number n.  Below 2^53 they are
\* the digits of n.  From 2^53 on the language leaves the digits to the
\* implementation: the digits of n, or those with the places the Number does
\* not hold filled with 0.
ToString36Wide(n) ==
    IF Unsafe(n) THEN { WDigits(n), ZeroFilled(n) } ELSE { WDigits(n) }

\* ------------------------------------------------------------- inputs
\* A request whose id is n zeros.
LongFrame(tag, n) == << tag >> \o [i \in 1..n |-> "0"]

\* The well-formed frames the client sends.
ValidFrames ==
    { << "h" >>, << "b", "1" >>, << "d", "1" >>,
      LongFrame("d", MAX_ID_DIGITS) }

\* The malformed text frames the client sends: the empty frame, a tag
\* without an id, a tag the protocol does not know, a second character after
\* h, an upper-case digit, a server-to-client form, an id followed by
\* something else, and an id of one digit too many.
InvalidFrames ==
    { << >>, << "b" >>, << "d" >>, << "x" >>, << "1" >>, << "h", "h" >>,
      << "h", "1" >>, << "b", "A" >>, << "d", "-" >>, << "c", "1" >>,
      << "b", "1", "," >>, << "b", "1", " " >>, << "d", "1", ",", "1" >>,
      << "b", "1", "A" >>,
      LongFrame("b", MAX_ID_DIGITS + 1), LongFrame("d", MAX_ID_DIGITS + 1) }

Frames == ValidFrames \cup InvalidFrames

\* A binary frame (typeof data !== 'string').
Binary == << "binary" >>

\* ---------------------------------------------------------------- state
VARIABLES
    now,                \* Date.now()
    \* the channel
    ws,                 \* "open", "closing" (the server called close), "closed"
    closeCode,          \* the code the channel was closed with, 0 while open
    heartbeatTimeout,   \* #heartbeatTimeout: when it fires, 0 when not armed
    listening,          \* the store subscriptions are active
    flush,              \* what the shutdown flush still awaits
    \* the rate limiter
    cooldownUntil, cooldownFails, bpmBoops,
    \* the BPH ledger
    bph,                \* #bph: key -> <<validUntil, change>>
    lastBPH, unsyncedBPH,
    bphRemoveTimeouts,  \* key -> when the removal fires, 0 once it has fired
    bphSyncInterval,    \* when the interval fires next, 0 when cleared
    \* the GBC scheduler
    lastGBC, unsyncedGBC, lastGBCSync,
    gbcSyncPromise,     \* the delta of the atomic add in flight, 0 when none
    gbcSyncTimeout,     \* when the trailing timer fires, 0 when not armed
    \* the store
    gbc,                \* the value at boop-count
    bphStore,           \* boops-per-hour/<id>: key -> entry
    nextKey,            \* the key the next push is given
    pushes,             \* pushes in flight
    removes,            \* removals in flight (keys)
    gbcEvents,          \* values of gbc not yet delivered to the session
    notified,           \* keys whose child-added the session has received
    external,           \* increments of gbc made by other sessions
    \* the observer
    sent,               \* the frames the last step sent, in order
    admitted,           \* the times of the boops this session admitted
    lastShown,          \* the count of the last c frame this session sent
    session,            \* the number of the session object
    lastBeat,           \* when the channel was accepted or h last arrived
    openLedger,         \* boops-per-hour/<id> as the session found it
    \* the start of a session
    boot,               \* how far #asyncInit has come
    gbcExists,          \* boop-count holds a value
    others,             \* the entries under the other clients' subtrees
    \* the janitor
    cron,               \* the sweep: its snapshot, its time, its removals
    \* the wire
    codec,              \* a tuple on its way through an encoder and a decoder
    \* the client
    conn,               \* the MareConnection object of the client
    \* the store, besides
    stray               \* writes and events the session did not cause

chanVars == << ws, closeCode, heartbeatTimeout, listening, flush >>
rateVars == << cooldownUntil, cooldownFails, bpmBoops >>
bphVars == << bph, lastBPH, unsyncedBPH, bphRemoveTimeouts, bphSyncInterval >>
gbcVars == << lastGBC, unsyncedGBC, lastGBCSync, gbcSyncPromise, gbcSyncTimeout >>
storeVars ==
    << gbc, bphStore, nextKey, pushes, removes, gbcEvents, notified, external >>
obsVars == << admitted, lastShown, session, lastBeat, openLedger >>
apartVars == << boot, gbcExists, others, cron, codec, conn, stray >>
vars ==
    << now, chanVars, rateVars, bphVars, gbcVars, storeVars, obsVars, sent,
       apartVars >>

\* ----------------------------------------------------------------- maps
EmptyMap == [k \in {} |-> 0]
Put(m, k, v) == [x \in DOMAIN m \cup {k} |-> IF x = k THEN v ELSE m[x]]
Del(m, k) == [x \in DOMAIN m \ {k} |-> m[x]]
RemoveAt(s, i) == SubSeq(s, 1, i - 1) \o SubSeq(s, i + 1, Len(s))

ValidUntil(e) == e[BPH_VALID_UNTIL + 1]
Change(e) == e[BPH_CHANGE + 1]

\* isValidBPHEntry: an array of two numbers whose first is positive.
IsValidBPHEntry(val) ==
    /\ Len(val) = 2
    /\ ValidUntil(val) \in Int /\ ValidUntil(val) > 0
    /\ Change(val) \in Int

RECURSIVE SumChange(_)
SumChange(m) ==
    IF DOMAIN m = {} THEN 0
    ELSE LET k == CHOOSE x \in DOMAIN m : TRUE
         IN  Change(m[k]) + SumChange(Del(m, k))

\* Object.keys(#bph).sort(by validUntil): the keys in ascending validUntil.
RECURSIVE SortedKeys(_)
SortedKeys(m) ==
    IF DOMAIN m = {} THEN << >>
    ELSE LET k == CHOOSE x \in DOMAIN m :
                    \A y \in DOMAIN m :
                        \/ ValidUntil(m[x]) < ValidUntil(m[y])
                        \/ ValidUntil(m[x]) = ValidUntil(m[y]) /\ x <= y
         IN  << k >> \o SortedKeys(Del(m, k))

\* --------------------------------------------------------- rate limiter
\* The loop of #getCooldown over the sorted keys: virtually remove boop
\* packs until the sum is below the limit.  <<soonest, virtualBPH>>.
RECURSIVE WalkBPH(_, _, _)
WalkBPH(keys, soonest, virtualBPH) ==
    IF keys = << >> THEN << soonest, virtualBPH >>
    ELSE LET entry == bph[Head(keys)]
             v == virtualBPH - Change(entry)
         IN  IF v < BPH_LIMIT THEN << ValidUntil(entry), v >>
             ELSE WalkBPH(Tail(keys), ValidUntil(entry), v)

\* The BPH branch of #getCooldown with a loop that does not stop at the
\* first pack that brings the sum below the limit.
BPHCooldown_Whole(n) ==
    LET keys == SortedKeys(bph)
        soonest == IF keys = << >> \/ lastBPH + unsyncedBPH - SumChange(bph) >= BPH_LIMIT
                   THEN n + ONE_HOUR
                   ELSE ValidUntil(bph[keys[Len(keys)]])
    IN  n + Max(0, soonest - n)

\* The BPH branch of #getCooldown.
BPHCooldown(n) ==
    LET walked == WalkBPH(SortedKeys(bph), 0, lastBPH + unsyncedBPH)
        soonest == IF walked[2] >= BPH_LIMIT THEN n + ONE_HOUR ELSE walked[1]
    IN  n + Max(0, soonest - n)

\* The BPM branch with a window one tick short.
BPMCooldown_Short(n) ==
    IF n - bpmBoops[1] >= ONE_MINUTE - 1 THEN 0
    ELSE n + Max(0, ONE_MINUTE - (n - bpmBoops[1]))

\* The BPM branch of #getCooldown.
BPMCooldown(n) ==
    IF n - bpmBoops[1] >= ONE_MINUTE THEN 0
    ELSE n + Max(0, ONE_MINUTE - (n - bpmBoops[1]))

\* #getCooldown with the window taken for full one boop early.
GetCooldown_Early(n) ==
    IF lastBPH + unsyncedBPH >= BPH_LIMIT THEN BPHCooldown(n)
    ELSE IF Len(bpmBoops) >= BPM_LIMIT - 1 THEN BPMCooldown(n)
    ELSE 0

\* What #getCooldown(n) returns: 0, or the time the cooldown ends.
GetCooldown(n) ==
    IF lastBPH + unsyncedBPH >= BPH_LIMIT THEN BPHCooldown(n)
    ELSE IF Len(bpmBoops) >= BPM_LIMIT THEN BPMCooldown(n)
    ELSE 0

KeepRecent(n, timestamp) == n - timestamp < ONE_MINUTE

\* #bpmBoops after a #getCooldown that filters nothing.
PrunedBpmBoops_Kept(n) == bpmBoops

\* #bpmBoops after #getCooldown(n): pruned when the window is full and its
\* oldest boop is a minute old.
PrunedBpmBoops(n) ==
    IF /\ lastBPH + unsyncedBPH < BPH_LIMIT
       /\ Len(bpmBoops) >= BPM_LIMIT
       /\ n - bpmBoops[1] >= ONE_MINUTE
    THEN SelectSeq(bpmBoops, LAMBDA timestamp : KeepRecent(n, timestamp))
    ELSE bpmBoops

\* -------------------------------------------------------- GBC scheduler
GbcState ==
    [ lastGBC |-> lastGBC, unsyncedGBC |-> unsyncedGBC,
      lastGBCSync |-> lastGBCSync, promise |-> gbcSyncPromise,
      timeout |-> gbcSyncTimeout ]

\* The snapshot of #gbcSync: the unsynced boops move to lastGBC and become
\* the delta of the atomic add.
GbcSnapshot(st) ==
    [st EXCEPT !.unsyncedGBC = 0,
               !.lastGBC = st.lastGBC + st.unsyncedGBC,
               !.promise = st.unsyncedGBC]

\* #resetGBCSyncTimeout
ResetGBCSyncTimeout(st) == [st EXCEPT !.timeout = now + GBC_SYNC_INTERVAL]

\* #gbcSync without the test of the interval.
GbcSync_Eager(n0, finalSync, st) ==
    IF st.promise # 0 THEN st
    ELSE LET n == IF n0 = 0 THEN now ELSE n0
             st1 == [st EXCEPT !.lastGBCSync = n]
             st2 == IF st.unsyncedGBC # 0 THEN GbcSnapshot(st1) ELSE st1
         IN  ResetGBCSyncTimeout(st2)

\* #gbcSync without the early return for a sync in flight.
GbcSync_Unguarded(n0, finalSync, st) ==
    LET n == IF n0 = 0 THEN now ELSE n0
        due == finalSync \/ n - st.lastGBCSync >= GBC_SYNC_INTERVAL
        st1 == IF due THEN [st EXCEPT !.lastGBCSync = n] ELSE st
        st2 == IF due /\ st.unsyncedGBC # 0 THEN GbcSnapshot(st1) ELSE st1
    IN  ResetGBCSyncTimeout(st2)

\* #gbcSync(n0, finalSync) run on the scheduler state st; n0 = 0 is the
\* call without a time (now || Date.now()).
GbcSync(n0, finalSync, st) ==
    IF st.promise # 0 THEN st
    ELSE LET n == IF n0 = 0 THEN now ELSE n0
             due == finalSync \/ n - st.lastGBCSync >= GBC_SYNC_INTERVAL
             st1 == IF due THEN [st EXCEPT !.lastGBCSync = n] ELSE st
             st2 == IF due /\ st.unsyncedGBC # 0 THEN GbcSnapshot(st1) ELSE st1
         IN  ResetGBCSyncTimeout(st2)

\* The .finally of the atomic add clearing the promise and nothing else.
GbcSyncFinally_Idle(st) == [st EXCEPT !.promise = 0]

\* The .finally of the atomic add: the promise is cleared and, when an
\* interval has passed meanwhile, the next sync starts at once.
GbcSyncFinally(st) ==
    LET st1 == [st EXCEPT !.promise = 0]
    IN  IF now - st1.lastGBCSync >= GBC_SYNC_INTERVAL
        THEN GbcSync(now, FALSE, st1)
        ELSE st1

SetGbc(st) ==
    /\ lastGBC' = st.lastGBC
    /\ unsyncedGBC' = st.unsyncedGBC
    /\ lastGBCSync' = st.lastGBCSync
    /\ gbcSyncPromise' = st.promise
    /\ gbcSyncTimeout' = st.timeout

\* #sendBoopCount without the unsynced boops.
SendBoopCount_Synced(st, channel) ==
    IF channel = "open"
    THEN << BoopCountFrame(st.lastGBC) >>
    ELSE << >>

\* #sendBoopCount: the frame, when the channel is open.
SendBoopCount(st, channel) ==
    IF channel = "open"
    THEN << BoopCountFrame(st.lastGBC + st.unsyncedGBC) >>
    ELSE << >>

\* ------------------------------------------------------------- observer
\* The count the client reads off the last c frame of frames; prev when
\* frames holds no c frame.
Shown(frames, prev) ==
    LET cs == { i \in 1..Len(frames) : frames[i][1] = PROTO_BOOP_COUNT }
    IN  IF cs = {} THEN prev
        ELSE ParseInt36(Tail(frames[CHOOSE i \in cs : \A j \in cs : j <= i]))

\* -------------------------------------------------------- session start
\* The keys of a store subtree whose entries #onBPHChildAdded mirrors.
ValidKeys(m) == { k \in DOMAIN m : IsValidBPHEntry(m[k]) }

\* The timer #onBPHChildAdded sets for an entry: Math.max(0, validUntil - now).
RemoveDeadline(val) == now + Max(0, ValidUntil(val) - now)

\* The entries earlier sessions may have left: <<validUntil, change>>.
InitEntries == { << 2, 2 >>, << 4, 1 >>, << 4, BPH_LIMIT >> }

InitLedgers == UNION { [1..n -> InitEntries] : n \in 0..MaxInitEntries }

\* The subscriptions without the sum of the children found.
Mirror_Forgetful(m) ==
    [ bph |-> [k \in { x \in DOMAIN m : IsValidBPHEntry(m[x]) } |-> m[k]],
      lastBPH |-> 0,
      timeouts |-> [k \in { x \in DOMAIN m : IsValidBPHEntry(m[x]) } |->
                       now + Max(0, ValidUntil(m[k]) - now)],
      invalid |-> { x \in DOMAIN m : ~IsValidBPHEntry(m[x]) } ]

\* What the subscriptions of #initBPH leave when the store holds the ledger
\* m: #onBPHChildAdded has run for every child of boops-per-hour/<id>.
Mirror(m) ==
    [ bph |-> [k \in ValidKeys(m) |-> m[k]],
      lastBPH |-> SumChange([k \in ValidKeys(m) |-> m[k]]),
      timeouts |-> [k \in ValidKeys(m) |-> RemoveDeadline(m[k])],
      invalid |-> DOMAIN m \ ValidKeys(m) ]

\* #asyncInit has returned after #afterAsyncInit: both listeners of the
\* channel are installed.
BootDone ==
    [ signIn |-> "ok", bph |-> "ok", gbc |-> "ok", settled |-> TRUE,
      handlers |-> TRUE ]

\* No tuple is on the wire.
CodecIdle ==
    [ stage |-> "idle", to |-> "server", kind |-> "h", fields |-> << >>,
      frame |-> << >>, out |-> << >> ]

\* The requests of a MareConnection, "boop" for boop() and "query" for
\* queryCooldown(): lastId is #lastBoopId and #lastCooldownQueryId; pending
\* is #pendingBoops and #pendingCooldownQueries, id -> whether the entry is
\* the wrapped pair that clears the local timer; timeouts holds the ids
\* whose local timer is set.  Observed besides: settled, the settlements of
\* each promise in the order they were made.
RequestKinds == { "boop", "query" }

RequestsNone ==
    [ lastId |-> [k \in RequestKinds |-> 0],
      pending |-> [k \in RequestKinds |-> EmptyMap],
      timeouts |-> [k \in RequestKinds |-> {}],
      settled |-> [k \in RequestKinds |-> EmptyMap] ]

\* No client is modelled: a MareConnection whose socket is closed for good.
ConnIdle ==
    [ ws |-> "closed", reconnectOnClose |-> FALSE,
      reconnectImmediately |-> FALSE, connectOnFocus |-> FALSE,
      reconnectAttempts |-> 0, backoffTimeout |-> 0, focused |-> FALSE,
      heard |-> FALSE, gen |-> 0, kicked |-> FALSE, sinceMessage |-> 0,
      requests |-> RequestsNone ]

\* Nothing has reached the subtree or the session but what the session
\* caused.
StrayNone == [writes |-> 0, repeats |-> 0]

\* The janitor has not run.
CronIdle ==
    [ snapshot |-> [map |-> FALSE, clients |-> << >>], now |-> 0,
      ran |-> FALSE, reset |-> FALSE, removals |-> {} ]

\* The fields of a session object as their initializers leave them, before
\* #asyncInit has done anything.
Constructed ==
    /\ now = 1
    /\ closeCode = 0
    /\ heartbeatTimeout = 0
    /\ listening = FALSE
    /\ flush = [gbc |-> FALSE, bph |-> FALSE, released |-> FALSE]
    /\ cooldownUntil = 0 /\ cooldownFails = 0 /\ bpmBoops = << >>
    /\ bph = EmptyMap /\ lastBPH = 0 /\ unsyncedBPH = 0
    /\ bphRemoveTimeouts = EmptyMap
    /\ bphSyncInterval = 0
    /\ lastGBC = 0 /\ unsyncedGBC = 0 /\ lastGBCSync = 0
    /\ gbcSyncPromise = 0
    /\ gbcSyncTimeout = 0
    /\ pushes = << >> /\ removes = {} /\ gbcEvents = << >>
    /\ notified = {} /\ external = 0
    /\ sent = << >>
    /\ admitted = << >>
    /\ lastShown = 0
    /\ session = 1
    /\ lastBeat = 0
    /\ openLedger = EmptyMap

\* The state #asyncInit and #afterAsyncInit leave when they succeed: the
\* mirror is loaded, lastGBC is seeded, the timers are armed, the channel is
\* accepted and c<lastGBC> is sent.
Init ==
    /\ now = 1
    /\ \E m \in InitLedgers :
          /\ bphStore = [k \in DOMAIN m |-> m[k]]
          /\ bph = Mirror(m).bph
          /\ lastBPH = Mirror(m).lastBPH
          /\ bphRemoveTimeouts = Mirror(m).timeouts
          /\ removes = Mirror(m).invalid
          /\ notified = DOMAIN m
          /\ nextKey = Len(m) + 1
          /\ openLedger = [k \in DOMAIN m |-> m[k]]
    /\ gbc = StartGBC
    /\ ws = "open" /\ closeCode = 0
    /\ heartbeatTimeout = now + HEARTBEAT_TIMEOUT
    /\ listening = TRUE
    /\ flush = [gbc |-> FALSE, bph |-> FALSE, released |-> FALSE]
    /\ cooldownUntil = 0 /\ cooldownFails = 0 /\ bpmBoops = << >>
    /\ unsyncedBPH = 0
    /\ bphSyncInterval = now + BPH_SYNC_INTERVAL
    /\ lastGBC = StartGBC /\ unsyncedGBC = 0 /\ lastGBCSync = 0
    /\ gbcSyncPromise = 0
    /\ gbcSyncTimeout = now + GBC_SYNC_INTERVAL
    /\ pushes = << >> /\ gbcEvents = << >> /\ external = 0
    /\ sent = << BoopCountFrame(StartGBC) >>
    /\ admitted = << >>
    /\ lastShown = Shown(sent, 0)
    /\ session = 1
    /\ lastBeat = now
    /\ boot = BootDone
    /\ gbcExists = TRUE
    /\ others = 0
    /\ cron = CronIdle
    /\ codec = CodecIdle
    /\ conn = ConnIdle
    /\ stray = StrayNone

\* --------------------------------------------------------------- timers
Due(t) == t # 0 /\ t <= now

TimerDue ==
    \/ Due(heartbeatTimeout)
    \/ Due(gbcSyncTimeout)
    \/ Due(bphSyncInterval)
    \/ \E k \in DOMAIN bphRemoveTimeouts : Due(bphRemoveTimeouts[k])

\* The clock advances when no timer is due, up to the instant end.
TickTo(end) ==
    /\ now < end
    /\ ~TimerDue
    /\ now' = now + 1
    /\ sent' = << >>
    /\ UNCHANGED << chanVars, rateVars, bphVars, gbcVars, storeVars, obsVars >>
    /\ UNCHANGED apartVars

Tick == TickTo(MaxTime)

\* The callback #resetHeartbeatTimeout arms: close with 1001.
HeartbeatFire ==
    /\ Due(heartbeatTimeout)
    /\ heartbeatTimeout' = 0
    /\ ws' = IF ws = "open" THEN "closing" ELSE ws
    /\ closeCode' = IF ws = "open" THEN NO_HEARTBEAT_ERRCODE ELSE closeCode
    /\ sent' = << >>
    /\ UNCHANGED << now, listening, flush, rateVars, bphVars, gbcVars,
                    storeVars, obsVars >>
    /\ UNCHANGED apartVars

\* The trailing timer: #boundGBCSync, called without a time.
GbcTimerFire ==
    /\ Due(gbcSyncTimeout)
    /\ SetGbc(GbcSync(0, FALSE, [GbcState EXCEPT !.timeout = 0]))
    /\ sent' = << >>
    /\ UNCHANGED << now, chanVars, rateVars, bphVars, storeVars, obsVars >>
    /\ UNCHANGED apartVars

\* ------------------------------------------------------ client messages
\* The branch of #onMessage a frame takes.
Kind(data) ==
    IF data = Binary THEN "binary"
    ELSE IF data = << PROTO_HEARTBEAT >> THEN "heartbeat"
    ELSE IF StartsWith(data, PROTO_BOOP_REQUEST) /\ MatchId(data) THEN "boop"
    ELSE IF StartsWith(data, PROTO_COOLDOWN_QUERY) /\ MatchId(data) THEN "query"
    ELSE "invalid"

\* parseInt(match[1], 36)
IdOf(data) == ParseInt36(Tail(data))

\* #resetHeartbeatTimeout that keeps the timer it finds.
ResetHeartbeatTimeout_Keep == heartbeatTimeout' = heartbeatTimeout

\* #resetHeartbeatTimeout
ResetHeartbeatTimeout == heartbeatTimeout' = now + HEARTBEAT_TIMEOUT

\* A boop during an active cooldown that enters the BPM window.
BoopInCooldown_Windowed(n, boopId) ==
    /\ cooldownFails' = cooldownFails + 1
    /\ bpmBoops' = Append(bpmBoops, n)
    /\ IF cooldownFails >= CD_FAIL_LIMIT
       THEN /\ ws' = "closing"
            /\ closeCode' = TOO_MANY_COOLDOWN_FAILS_ERRCODE
            /\ sent' = << >>
       ELSE /\ sent' = << BoopRejectFrame(boopId, cooldownUntil - n) >>
            /\ UNCHANGED << ws, closeCode >>
    /\ UNCHANGED << cooldownUntil, heartbeatTimeout, listening,
                    flush, bphVars, gbcVars, obsVars >>

\* A boop during an active cooldown, the count compared after the
\* increment: ++cooldownFails >= CD_FAIL_LIMIT.
BoopInCooldown_PreIncrement(n, boopId) ==
    /\ cooldownFails' = cooldownFails + 1
    /\ IF cooldownFails + 1 >= CD_FAIL_LIMIT
       THEN /\ ws' = "closing"
            /\ closeCode' = TOO_MANY_COOLDOWN_FAILS_ERRCODE
            /\ sent' = << >>
       ELSE /\ sent' = << BoopRejectFrame(boopId, cooldownUntil - n) >>
            /\ UNCHANGED << ws, closeCode >>
    /\ UNCHANGED << cooldownUntil, bpmBoops, heartbeatTimeout, listening,
                    flush, bphVars, gbcVars, obsVars >>

\* A boop during an active cooldown, rejected also when it closes the
\* channel.
BoopInCooldown_RejectAndClose(n, boopId) ==
    /\ cooldownFails' = cooldownFails + 1
    /\ sent' = << BoopRejectFrame(boopId, cooldownUntil - n) >>
    /\ IF cooldownFails >= CD_FAIL_LIMIT
       THEN /\ ws' = "closing"
            /\ closeCode' = TOO_MANY_COOLDOWN_FAILS_ERRCODE
       ELSE UNCHANGED << ws, closeCode >>
    /\ UNCHANGED << cooldownUntil, bpmBoops, heartbeatTimeout, listening,
                    flush, bphVars, gbcVars, obsVars >>

\* A boop during an active cooldown: counted, rejected, and the channel
\* closed when too many were counted.
BoopInCooldown(n, boopId) ==
    /\ cooldownFails' = cooldownFails + 1
    /\ IF cooldownFails >= CD_FAIL_LIMIT
       THEN /\ ws' = "closing"
            /\ closeCode' = TOO_MANY_COOLDOWN_FAILS_ERRCODE
            /\ sent' = << >>
       ELSE /\ sent' = << BoopRejectFrame(boopId, cooldownUntil - n) >>
            /\ UNCHANGED << ws, closeCode >>
    /\ UNCHANGED << cooldownUntil, bpmBoops, heartbeatTimeout, listening,
                    flush, bphVars, gbcVars, obsVars >>

\* A boop that establishes a cooldown and starts the count of fails anew.
BoopRejected_Reset(n, boopId, cooldown) ==
    /\ cooldownUntil' = cooldown
    /\ bpmBoops' = PrunedBpmBoops(n)
    /\ sent' = << BoopRejectFrame(boopId, cooldown - n) >>
    /\ cooldownFails' = 0
    /\ UNCHANGED << chanVars, bphVars, gbcVars, obsVars >>

\* A boop that establishes a cooldown.
BoopRejected(n, boopId, cooldown) ==
    /\ cooldownUntil' = cooldown
    /\ bpmBoops' = PrunedBpmBoops(n)
    /\ sent' = << BoopRejectFrame(boopId, cooldown - n) >>
    /\ UNCHANGED << cooldownFails, chanVars, bphVars, gbcVars, obsVars >>

\* An admitted boop.
BoopAdmitted(n, boopId) ==
    LET st == GbcSync(n, FALSE,
                      [GbcState EXCEPT !.unsyncedGBC = unsyncedGBC + 1])
    IN  /\ cooldownUntil' = 0
        /\ cooldownFails' = 0
        /\ SetGbc(st)
        /\ bpmBoops' = Append(PrunedBpmBoops(n), n)
        /\ unsyncedBPH' = unsyncedBPH + 1
        /\ sent' = << BoopReplyFrame(boopId) >> \o SendBoopCount(st, ws)
        /\ admitted' = Append(admitted, n)
        /\ lastShown' = Shown(sent', lastShown)
        /\ UNCHANGED << chanVars, bph, lastBPH, bphRemoveTimeouts,
                        bphSyncInterval, session, lastBeat, openLedger >>

\* #onBoop(n, boopId)
OnBoop(n, boopId) ==
    IF cooldownUntil # 0 /\ n < cooldownUntil
    THEN BoopInCooldown(n, boopId)
    ELSE IF GetCooldown(n) # 0
    THEN BoopRejected(n, boopId, GetCooldown(n))
    ELSE BoopAdmitted(n, boopId)

\* #onCooldownQuery counting a query during an active cooldown as a failed
\* boop.
OnCooldownQuery_Counting(queryId, n) ==
    /\ IF cooldownUntil # 0 /\ n < cooldownUntil
       THEN /\ sent' = << CooldownReplyMsFrame(queryId, cooldownUntil - n) >>
            /\ cooldownFails' = cooldownFails + 1
            /\ UNCHANGED << cooldownUntil, bpmBoops >>
       ELSE IF GetCooldown(n) # 0
       THEN /\ cooldownUntil' = GetCooldown(n)
            /\ bpmBoops' = PrunedBpmBoops(n)
            /\ sent' = << CooldownReplyMsFrame(queryId, GetCooldown(n) - n) >>
            /\ UNCHANGED cooldownFails
       ELSE /\ cooldownUntil' = 0
            /\ bpmBoops' = PrunedBpmBoops(n)
            /\ sent' = << CooldownReplyFrame(queryId) >>
            /\ UNCHANGED cooldownFails
    /\ UNCHANGED << chanVars, bphVars, gbcVars, obsVars >>

\* #onCooldownQuery(queryId, n)
OnCooldownQuery(queryId, n) ==
    /\ IF cooldownUntil # 0 /\ n < cooldownUntil
       THEN /\ sent' = << CooldownReplyMsFrame(queryId, cooldownUntil - n) >>
            /\ UNCHANGED << cooldownUntil, bpmBoops >>
       ELSE IF GetCooldown(n) # 0
       THEN /\ cooldownUntil' = GetCooldown(n)
            /\ bpmBoops' = PrunedBpmBoops(n)
            /\ sent' = << CooldownReplyMsFrame(queryId, GetCooldown(n) - n) >>
       ELSE /\ cooldownUntil' = 0
            /\ bpmBoops' = PrunedBpmBoops(n)
            /\ sent' = << CooldownReplyFrame(queryId) >>
    /\ UNCHANGED << cooldownFails, chanVars, bphVars, gbcVars, obsVars >>

\* #onMessage(event), event.data = data
OnMessage(data) ==
    /\ ws = "open"
    /\ ~TimerDue
    /\ \/ /\ Kind(data) = "binary"
          /\ sent' = << >>
          /\ UNCHANGED << chanVars, rateVars, bphVars, gbcVars, obsVars >>
       \/ /\ Kind(data) = "heartbeat"
          /\ sent' = << << PROTO_HEARTBEAT >> >>
          /\ ResetHeartbeatTimeout
          /\ lastBeat' = now
          /\ UNCHANGED << ws, closeCode, listening, flush, rateVars, bphVars,
                          gbcVars, admitted, lastShown, session, openLedger >>
       \/ /\ Kind(data) = "boop"
          /\ OnBoop(now, IdOf(data))
       \/ /\ Kind(data) = "query"
          /\ OnCooldownQuery(IdOf(data), now)
       \/ /\ Kind(data) = "invalid"
          /\ sent' = << << PROTO_INVALID >> >>
          /\ UNCHANGED << chanVars, rateVars, bphVars, gbcVars, obsVars >>
    /\ UNCHANGED << now, storeVars >>
    /\ UNCHANGED apartVars

\* ----------------------------------------------------------- BPH ledger
\* #syncBPH: the unsynced boops become one push of [validUntil, change].
\* final marks the push the shutdown flush awaits.
SyncBPH(final) ==
    IF unsyncedBPH = 0
    THEN UNCHANGED << unsyncedBPH, pushes >>
    ELSE /\ unsyncedBPH' = 0
         /\ pushes' = Append(pushes, [validUntil |-> now + ONE_HOUR,
                                      change |-> unsyncedBPH,
                                      final |-> final,
                                      session |-> session])

\* setInterval(#syncBPH, BPH_SYNC_INTERVAL)
BphIntervalFire ==
    /\ Due(bphSyncInterval)
    /\ bphSyncInterval' = bphSyncInterval + BPH_SYNC_INTERVAL
    /\ SyncBPH(FALSE)
    /\ sent' = << >>
    /\ UNCHANGED << now, chanVars, rateVars, gbcVars, obsVars, bph, lastBPH,
                    bphRemoveTimeouts, gbc, bphStore, nextKey, removes,
                    gbcEvents, notified, external >>
    /\ UNCHANGED apartVars

\* The push of #syncBPH succeeds: the store holds the entry under a new key.
PushOk(i) ==
    /\ bphStore' = Put(bphStore, nextKey,
                       << pushes[i].validUntil, pushes[i].change >>)
    /\ nextKey' = nextKey + 1
    /\ pushes' = RemoveAt(pushes, i)
    /\ flush' = IF pushes[i].final THEN [flush EXCEPT !.bph = FALSE] ELSE flush
    /\ sent' = << >>
    /\ UNCHANGED << now, ws, closeCode, heartbeatTimeout, listening, rateVars,
                    bphVars, gbcVars, obsVars, gbc, removes, gbcEvents,
                    notified, external >>
    /\ UNCHANGED apartVars

\* The push of #syncBPH fails and its change is forgotten.
PushFail_Drop(i) ==
    /\ pushes' = RemoveAt(pushes, i)
    /\ flush' = IF pushes[i].final THEN [flush EXCEPT !.bph = FALSE] ELSE flush
    /\ sent' = << >>
    /\ UNCHANGED << now, ws, closeCode, heartbeatTimeout, listening, rateVars,
                    gbcVars, obsVars, bphVars, gbc, bphStore, nextKey, removes,
                    gbcEvents, notified, external >>
    /\ UNCHANGED apartVars

\* The push of #syncBPH fails: the .catch restores unsyncedBPH.
PushFail(i) ==
    /\ unsyncedBPH' = IF pushes[i].session = session
                       THEN unsyncedBPH + pushes[i].change
                       ELSE unsyncedBPH
    /\ pushes' = RemoveAt(pushes, i)
    /\ flush' = IF pushes[i].final THEN [flush EXCEPT !.bph = FALSE] ELSE flush
    /\ sent' = << >>
    /\ UNCHANGED << now, ws, closeCode, heartbeatTimeout, listening, rateVars,
                    gbcVars, obsVars, bph, lastBPH, bphRemoveTimeouts,
                    bphSyncInterval, gbc, bphStore, nextKey, removes,
                    gbcEvents, notified, external >>
    /\ UNCHANGED apartVars

\* #onBPHChildAdded(snapshot), snapshot.key = k
OnBPHChildAdded(k) ==
    /\ listening
    /\ k \in DOMAIN bphStore \ notified
    /\ notified' = notified \cup {k}
    /\ IF IsValidBPHEntry(bphStore[k])
       THEN /\ bph' = Put(bph, k, bphStore[k])
            /\ lastBPH' = lastBPH + Change(bphStore[k])
            /\ bphRemoveTimeouts' =
                   Put(bphRemoveTimeouts, k, RemoveDeadline(bphStore[k]))
            /\ UNCHANGED removes
       ELSE /\ removes' = removes \cup {k}
            /\ UNCHANGED << bph, lastBPH, bphRemoveTimeouts >>
    /\ sent' = << >>
    /\ UNCHANGED << now, chanVars, rateVars, gbcVars, obsVars, unsyncedBPH,
                    bphSyncInterval, gbc, bphStore, nextKey, pushes,
                    gbcEvents, external >>
    /\ UNCHANGED apartVars

\* #onBPHChildRemoved(snapshot), snapshot.key = k
OnBPHChildRemoved(k) ==
    /\ listening
    /\ k \in notified \ DOMAIN bphStore
    /\ notified' = notified \ {k}
    /\ IF k \in DOMAIN bph
       THEN /\ lastBPH' = lastBPH - Change(bph[k])
            /\ bph' = Del(bph, k)
            /\ bphRemoveTimeouts' = Del(bphRemoveTimeouts, k)
       ELSE UNCHANGED << bph, lastBPH, bphRemoveTimeouts >>
    /\ sent' = << >>
    /\ UNCHANGED << now, chanVars, rateVars, gbcVars, obsVars, unsyncedBPH,
                    bphSyncInterval, gbc, bphStore, nextKey, pushes, removes,
                    gbcEvents, external >>
    /\ UNCHANGED apartVars

\* The timer #onBPHChildAdded set for key k: remove the entry.
RemoveTimerFire(k) ==
    /\ k \in DOMAIN bphRemoveTimeouts
    /\ Due(bphRemoveTimeouts[k])
    /\ bphRemoveTimeouts' = [bphRemoveTimeouts EXCEPT ![k] = 0]
    /\ removes' = removes \cup {k}
    /\ sent' = << >>
    /\ UNCHANGED << now, chanVars, rateVars, gbcVars, obsVars, bph, lastBPH,
                    unsyncedBPH, bphSyncInterval, gbc, bphStore, nextKey,
                    pushes, gbcEvents, notified, external >>
    /\ UNCHANGED apartVars

\* A removal succeeds.
RemoveOk(k) ==
    /\ k \in removes
    /\ removes' = removes \ {k}
    /\ bphStore' = Del(bphStore, k)
    /\ sent' = << >>
    /\ UNCHANGED << now, chanVars, rateVars, bphVars, gbcVars, obsVars, gbc,
                    nextKey, pushes, gbcEvents, notified, external >>
    /\ UNCHANGED apartVars

\* A removal fails: logged.
RemoveFail(k) ==
    /\ k \in removes
    /\ removes' = removes \ {k}
    /\ sent' = << >>
    /\ UNCHANGED << now, chanVars, rateVars, bphVars, gbcVars, obsVars, gbc,
                    bphStore, nextKey, pushes, gbcEvents, notified, external >>
    /\ UNCHANGED apartVars

\* -------------------------------------------------------------- GBC sync
\* The atomic add in flight succeeds: the store adds the delta.
GbcAddOk ==
    /\ gbcSyncPromise # 0
    /\ gbc' = gbc + gbcSyncPromise
    /\ gbcEvents' = IF listening THEN Append(gbcEvents, gbc + gbcSyncPromise)
                     ELSE gbcEvents
    /\ SetGbc(GbcSyncFinally(GbcState))
    /\ flush' = [flush EXCEPT !.gbc = FALSE]
    /\ sent' = << >>
    /\ UNCHANGED << now, ws, closeCode, heartbeatTimeout, listening, rateVars,
                    bphVars, obsVars, bphStore, nextKey, pushes, removes,
                    notified, external >>
    /\ UNCHANGED apartVars

\* The atomic add in flight fails and the session gives the channel up.
GbcAddFail_Close ==
    /\ gbcSyncPromise # 0
    /\ SetGbc(GbcSyncFinally(
           [GbcState EXCEPT !.unsyncedGBC = unsyncedGBC + gbcSyncPromise]))
    /\ flush' = [flush EXCEPT !.gbc = FALSE]
    /\ ws' = IF ws = "open" THEN "closing" ELSE ws
    /\ closeCode' = IF ws = "open" THEN INTERNAL_SERVER_ERROR_ERRCODE
                      ELSE closeCode
    /\ sent' = << >>
    /\ UNCHANGED << now, heartbeatTimeout, listening, rateVars, bphVars,
                    obsVars, storeVars >>
    /\ UNCHANGED apartVars

\* The atomic add in flight fails and its delta is dropped.
GbcAddFail_Lost ==
    /\ gbcSyncPromise # 0
    /\ SetGbc(GbcSyncFinally(GbcState))
    /\ flush' = [flush EXCEPT !.gbc = FALSE]
    /\ sent' = << >>
    /\ UNCHANGED << now, ws, closeCode, heartbeatTimeout, listening, rateVars,
                    bphVars, obsVars, storeVars >>
    /\ UNCHANGED apartVars

\* The atomic add in flight fails: the .catch restores unsyncedGBC.
GbcAddFail ==
    /\ gbcSyncPromise # 0
    /\ SetGbc(GbcSyncFinally(
           [GbcState EXCEPT !.unsyncedGBC = unsyncedGBC + gbcSyncPromise]))
    /\ flush' = [flush EXCEPT !.gbc = FALSE]
    /\ sent' = << >>
    /\ UNCHANGED << now, ws, closeCode, heartbeatTimeout, listening, rateVars,
                    bphVars, obsVars, storeVars >>
    /\ UNCHANGED apartVars

\* #onGBCChange(snapshot), snapshot.val() the oldest undelivered value
OnGBCChange ==
    /\ listening
    /\ gbcEvents # << >>
    /\ gbcEvents' = Tail(gbcEvents)
    /\ IF Head(gbcEvents) = lastGBC
       THEN /\ sent' = << >>
            /\ UNCHANGED << lastGBC, lastShown >>
       ELSE /\ lastGBC' = Head(gbcEvents)
            /\ sent' = SendBoopCount(
                           [GbcState EXCEPT !.lastGBC = Head(gbcEvents)], ws)
            /\ lastShown' = Shown(sent', lastShown)
    /\ UNCHANGED << now, chanVars, rateVars, bphVars, unsyncedGBC,
                    lastGBCSync, gbcSyncPromise, gbcSyncTimeout, gbc, bphStore,
                    nextKey, pushes, removes, notified, external, admitted,
                    session, lastBeat, openLedger >>
    /\ UNCHANGED apartVars

\* Another session adds a boop to boop-count.
ExternalAdd ==
    /\ external < MaxExternal
    /\ external' = external + 1
    /\ gbc' = gbc + 1
    /\ gbcEvents' = IF listening THEN Append(gbcEvents, gbc + 1) ELSE gbcEvents
    /\ sent' = << >>
    /\ UNCHANGED << now, chanVars, rateVars, bphVars, gbcVars, obsVars,
                    bphStore, nextKey, pushes, removes, notified >>
    /\ UNCHANGED apartVars

\* ------------------------------------------------------------- shutdown
\* #onClose(event): subscriptions and timers are torn down, then the flush
\* starts: #gbcSync(Date.now() + GBC_SYNC_INTERVAL + ONE_MINUTE) and
\* #syncBPH().  The flush awaits the atomic add that was already in flight
\* (the promise #gbcSync returns) and the push.
OnClose ==
    /\ ws' = "closed"
    /\ listening' = FALSE
    /\ gbcEvents' = << >>
    /\ heartbeatTimeout' = 0
    /\ bphSyncInterval' = 0
    /\ bphRemoveTimeouts' = EmptyMap
    /\ SetGbc(GbcSync(now + GBC_SYNC_INTERVAL + ONE_MINUTE, FALSE,
                      [GbcState EXCEPT !.timeout = 0]))
    /\ SyncBPH(TRUE)
    /\ flush' = [gbc |-> gbcSyncPromise # 0, bph |-> unsyncedBPH # 0,
                 released |-> FALSE]
    /\ sent' = << >>
    /\ UNCHANGED << now, rateVars, bph, lastBPH, gbc, bphStore, nextKey,
                    removes, notified, external, obsVars >>
    /\ UNCHANGED apartVars

\* The client closes the channel.
ClientClose ==
    /\ ws = "open"
    /\ closeCode' = CLIENT_CLOSE_CODE
    /\ OnClose

\* The close event of a channel the server closed.
CloseEvent ==
    /\ ws = "closing"
    /\ UNCHANGED closeCode
    /\ OnClose

\* deleteApp(#app), once the flush has been awaited.
Release ==
    /\ ws = "closed"
    /\ ~flush.gbc /\ ~flush.bph /\ ~flush.released
    /\ flush' = [flush EXCEPT !.released = TRUE]
    /\ sent' = << >>
    /\ UNCHANGED << now, ws, closeCode, heartbeatTimeout, listening, rateVars,
                    bphVars, gbcVars, storeVars, obsVars >>
    /\ UNCHANGED apartVars

\* The client connects again: a new session object of the same client id
\* initializes against the store as it is.
Reconnect ==
    /\ ws = "closed" /\ flush.released
    /\ gbcSyncPromise = 0 /\ pushes = << >>
    /\ session < MaxSessions
    /\ session' = session + 1
    /\ bph' = Mirror(bphStore).bph
    /\ lastBPH' = Mirror(bphStore).lastBPH
    /\ bphRemoveTimeouts' = Mirror(bphStore).timeouts
    /\ removes' = removes \cup Mirror(bphStore).invalid
    /\ notified' = DOMAIN bphStore
    /\ ws' = "open" /\ closeCode' = 0
    /\ heartbeatTimeout' = now + HEARTBEAT_TIMEOUT
    /\ listening' = TRUE
    /\ flush' = [gbc |-> FALSE, bph |-> FALSE, released |-> FALSE]
    /\ cooldownUntil' = 0 /\ cooldownFails' = 0 /\ bpmBoops' = << >>
    /\ unsyncedBPH' = 0
    /\ bphSyncInterval' = now + BPH_SYNC_INTERVAL
    /\ lastGBC' = gbc /\ unsyncedGBC' = 0 /\ lastGBCSync' = 0
    /\ gbcSyncPromise' = 0
    /\ gbcSyncTimeout' = now + GBC_SYNC_INTERVAL
    /\ gbcEvents' = << >>
    /\ sent' = << BoopCountFrame(gbc) >>
    /\ admitted' = << >>
    /\ lastShown' = Shown(sent', 0)
    /\ lastBeat' = now
    /\ openLedger' = bphStore
    /\ UNCHANGED << now, gbc, bphStore, nextKey, pushes, external >>
    /\ UNCHANGED apartVars

\* ----------------------------------------------- session start, stepwise
\* #asyncInit one await at a time, against a store other sessions write to
\* meanwhile.  The channel is "pending" until it is accepted: a frame sent
\* to it before reaches nobody.  The children #initBPH finds are mirrored
\* when the channel is accepted.

MaxOthers == 2

\* The session object is constructed; the store holds what earlier
\* sessions left, boop-count possibly nothing yet.
InitBoot ==
    /\ Constructed
    /\ ws = "pending"
    /\ boot = [ signIn |-> "pending", bph |-> "idle", gbc |-> "idle",
                settled |-> FALSE, handlers |-> FALSE ]
    /\ gbcExists \in BOOLEAN
    /\ gbc = IF gbcExists THEN StartGBC ELSE 0
    /\ \E m \in InitLedgers :
          /\ bphStore = [k \in DOMAIN m |-> m[k]]
          /\ nextKey = Len(m) + 1
    /\ others \in 0..1
    /\ cron = CronIdle
    /\ codec = CodecIdle
    /\ conn = ConnIdle
    /\ stray = StrayNone

BootUnchanged ==
    UNCHANGED << now, flush, rateVars, unsyncedBPH, unsyncedGBC, lastGBCSync,
                 gbcSyncPromise, nextKey, pushes, admitted, session, cron,
                 codec, conn, stray >>

\* #signIn resolves: #initBPH and #initGBC start and each awaits its first
\* read.
SignInOk ==
    /\ boot.signIn = "pending"
    /\ boot' = [boot EXCEPT !.signIn = "ok", !.bph = "getRoot", !.gbc = "get"]
    /\ sent' = << >>
    /\ BootUnchanged
    /\ UNCHANGED << ws, closeCode, heartbeatTimeout, listening, bph, lastBPH,
                    bphRemoveTimeouts, bphSyncInterval, lastGBC,
                    gbcSyncTimeout, gbc, bphStore, removes, gbcEvents,
                    notified, external, lastShown, lastBeat, openLedger,
                    gbcExists, others >>

\* The channel is accepted and closed with INTERNAL_SERVER_ERROR_ERRCODE and
\* heartbeat armed all the same.
CloseInternalError_Watched ==
    /\ ws' = "closing"
    /\ closeCode' = INTERNAL_SERVER_ERROR_ERRCODE
    /\ heartbeatTimeout' = now + HEARTBEAT_TIMEOUT

\* ws.accept(); ws.close(INTERNAL_SERVER_ERROR_ERRCODE, ...); return
CloseInternalError ==
    /\ ws' = "closing"
    /\ closeCode' = INTERNAL_SERVER_ERROR_ERRCODE
    /\ UNCHANGED heartbeatTimeout

\* #signIn rejects.
SignInFail ==
    /\ boot.signIn = "pending"
    /\ boot' = [boot EXCEPT !.signIn = "failed", !.settled = TRUE]
    /\ CloseInternalError
    /\ sent' = << >>
    /\ BootUnchanged
    /\ UNCHANGED << listening, bph, lastBPH, bphRemoveTimeouts,
                    bphSyncInterval, lastGBC, gbcSyncTimeout, gbc, bphStore,
                    removes, gbcEvents, notified, external, lastShown,
                    lastBeat, openLedger, gbcExists, others >>

\* isObject(bphRootSSVal): boops-per-hour holds a child.
BphRootIsObject == DOMAIN bphStore # {} \/ others > 0

\* #initBPH after the root is known to be there: the interval is set and
\* the children of boops-per-hour/<id> are subscribed to, then the own
\* subtree is read.
BphSubscribe ==
    /\ bphSyncInterval' = now + BPH_SYNC_INTERVAL
    /\ boot' = [boot EXCEPT !.bph = "getOwn"]

\* get(bphRootRef) resolves.
BphRootGet ==
    /\ boot.bph = "getRoot"
    /\ IF BphRootIsObject
       THEN BphSubscribe
       ELSE /\ boot' = [boot EXCEPT !.bph = "setRoot"]
            /\ UNCHANGED bphSyncInterval
    /\ sent' = << >>
    /\ BootUnchanged
    /\ UNCHANGED << ws, closeCode, heartbeatTimeout, listening, bph, lastBPH,
                    bphRemoveTimeouts, lastGBC, gbcSyncTimeout, gbc, bphStore,
                    removes, gbcEvents, notified, external, lastShown,
                    lastBeat, openLedger, gbcExists, others >>

\* set(bphRootRef, {}) resolves: boops-per-hour holds nothing any more.
BphRootSet ==
    /\ boot.bph = "setRoot"
    /\ bphStore' = EmptyMap
    /\ others' = 0
    /\ BphSubscribe
    /\ sent' = << >>
    /\ BootUnchanged
    /\ UNCHANGED << ws, closeCode, heartbeatTimeout, listening, bph, lastBPH,
                    bphRemoveTimeouts, lastGBC, gbcSyncTimeout, gbc, removes,
                    gbcEvents, notified, external, lastShown, lastBeat,
                    openLedger, gbcExists >>

\* get(#bphRef) resolves.
BphOwnGet ==
    /\ boot.bph = "getOwn"
    /\ boot' = [boot EXCEPT
                  !.bph = IF DOMAIN bphStore # {} THEN "ok" ELSE "setOwn"]
    /\ sent' = << >>
    /\ BootUnchanged
    /\ UNCHANGED << ws, closeCode, heartbeatTimeout, listening, bph, lastBPH,
                    bphRemoveTimeouts, bphSyncInterval, lastGBC,
                    gbcSyncTimeout, gbc, bphStore, removes, gbcEvents,
                    notified, external, lastShown, lastBeat, openLedger,
                    gbcExists, others >>

\* set(#bphRef, {}) resolves.
BphOwnSet ==
    /\ boot.bph = "setOwn"
    /\ bphStore' = EmptyMap
    /\ boot' = [boot EXCEPT !.bph = "ok"]
    /\ sent' = << >>
    /\ BootUnchanged
    /\ UNCHANGED << ws, closeCode, heartbeatTimeout, listening, bph, lastBPH,
                    bphRemoveTimeouts, bphSyncInterval, lastGBC,
                    gbcSyncTimeout, gbc, removes, gbcEvents, notified,
                    external, lastShown, lastBeat, openLedger, gbcExists,
                    others >>

\* A read or write of #initBPH rejects: #initBPH rejects with what it has
\* set up so far left in place.
BphInitFail ==
    /\ boot.bph \in { "getRoot", "setRoot", "getOwn", "setOwn" }
    /\ boot' = [boot EXCEPT !.bph = "failed"]
    /\ sent' = << >>
    /\ BootUnchanged
    /\ UNCHANGED << ws, closeCode, heartbeatTimeout, listening, bph, lastBPH,
                    bphRemoveTimeouts, bphSyncInterval, lastGBC,
                    gbcSyncTimeout, gbc, bphStore, removes, gbcEvents,
                    notified, external, lastShown, lastBeat, openLedger,
                    gbcExists, others >>

\* #initGBC once boop-count holds a number: the trailing timer is set and
\* the value is subscribed to; the subscription reports the value it finds.
GbcSubscribe(val) ==
    /\ gbcSyncTimeout' = now + GBC_SYNC_INTERVAL
    /\ listening' = TRUE
    /\ gbcEvents' = << val >>
    /\ boot' = [boot EXCEPT !.gbc = "ok"]

\* get(#gbcRef) resolves: lastGBC = gbcSSVal || 0.
GbcGet ==
    /\ boot.gbc = "get"
    /\ lastGBC' = IF gbcExists THEN gbc ELSE 0
    /\ IF gbcExists
       THEN GbcSubscribe(gbc)
       ELSE /\ boot' = [boot EXCEPT !.gbc = "set"]
            /\ UNCHANGED << gbcSyncTimeout, listening, gbcEvents >>
    /\ sent' = << >>
    /\ BootUnchanged
    /\ UNCHANGED << ws, closeCode, heartbeatTimeout, bph, lastBPH,
                    bphRemoveTimeouts, bphSyncInterval, gbc, bphStore,
                    removes, notified, external, lastShown, lastBeat,
                    openLedger, gbcExists, others >>

\* set(#gbcRef, 0) resolves.
GbcSet ==
    /\ boot.gbc = "set"
    /\ gbc' = 0
    /\ gbcExists' = TRUE
    /\ GbcSubscribe(0)
    /\ sent' = << >>
    /\ BootUnchanged
    /\ UNCHANGED << ws, closeCode, heartbeatTimeout, bph, lastBPH,
                    bphRemoveTimeouts, bphSyncInterval, lastGBC, bphStore,
                    removes, notified, external, lastShown, lastBeat,
                    openLedger, others >>

\* The read or the write of #initGBC rejects.
GbcInitFail ==
    /\ boot.gbc \in { "get", "set" }
    /\ boot' = [boot EXCEPT !.gbc = "failed"]
    /\ sent' = << >>
    /\ BootUnchanged
    /\ UNCHANGED << ws, closeCode, heartbeatTimeout, listening, bph, lastBPH,
                    bphRemoveTimeouts, bphSyncInterval, lastGBC,
                    gbcSyncTimeout, gbc, bphStore, removes, gbcEvents,
                    notified, external, lastShown, lastBeat, openLedger,
                    gbcExists, others >>

\* Promise.allSettled has both results.
BootSettled ==
    /\ ~boot.settled
    /\ boot.bph \in { "ok", "failed" }
    /\ boot.gbc \in { "ok", "failed" }

\* One of #initBPH, #initGBC rejected.
InitFailed ==
    /\ BootSettled
    /\ boot.bph = "failed" \/ boot.gbc = "failed"
    /\ boot' = [boot EXCEPT !.settled = TRUE]
    /\ CloseInternalError
    /\ sent' = << >>
    /\ BootUnchanged
    /\ UNCHANGED << listening, bph, lastBPH, bphRemoveTimeouts,
                    bphSyncInterval, lastGBC, gbcSyncTimeout, gbc, bphStore,
                    removes, gbcEvents, notified, external, lastShown,
                    lastBeat, openLedger, gbcExists, others >>

\* #afterAsyncInit: the channel is accepted, the heartbeat timer armed, the
\* listeners of the channel installed and the count sent.
AfterAsyncInit ==
    /\ BootSettled
    /\ boot.bph = "ok" /\ boot.gbc = "ok"
    /\ boot' = [boot EXCEPT !.settled = TRUE, !.handlers = TRUE]
    /\ ws' = "open"
    /\ ResetHeartbeatTimeout
    /\ lastBeat' = now
    /\ bph' = Mirror(bphStore).bph
    /\ lastBPH' = Mirror(bphStore).lastBPH
    /\ bphRemoveTimeouts' = Mirror(bphStore).timeouts
    /\ removes' = Mirror(bphStore).invalid
    /\ notified' = DOMAIN bphStore
    /\ openLedger' = bphStore
    /\ sent' = SendBoopCount(GbcState, "open")
    /\ lastShown' = Shown(sent', lastShown)
    /\ BootUnchanged
    /\ UNCHANGED << closeCode, listening, bphSyncInterval, lastGBC,
                    gbcSyncTimeout, gbc, bphStore, gbcEvents, external,
                    gbcExists, others >>

\* Another session adds a boop to boop-count, which need not exist yet.
OtherAdd ==
    /\ external < MaxExternal
    /\ external' = external + 1
    /\ gbc' = gbc + 1
    /\ gbcExists' = TRUE
    /\ gbcEvents' = IF listening THEN Append(gbcEvents, gbc + 1) ELSE gbcEvents
    /\ sent' = << >>
    /\ UNCHANGED << now, chanVars, rateVars, bphVars, gbcVars, obsVars,
                    bphStore, nextKey, pushes, removes, notified, boot,
                    others, cron, codec, conn, stray >>

\* The session of another client pushes an entry to its own subtree.
OtherPush ==
    /\ others < MaxOthers
    /\ others' = others + 1
    /\ sent' = << >>
    /\ UNCHANGED << now, chanVars, rateVars, bphVars, gbcVars, storeVars,
                    obsVars, boot, gbcExists, cron, codec, conn, stray >>

\* -------------------------------------------------------------- janitor
\* handleCron(env) as a function of the snapshot of boops-per-hour it reads
\* and of its Date.now().  A value of the store is [map, ...]: map tells
\* whether isObject holds of it; the root lists its clients' subtrees and a
\* subtree lists its entries, both in the order Object.entries gives.

\* The entries a subtree may hold: two well-formed ones and a malformed one
\* (validUntil not positive).
CronEntries == { << 1, 1 >>, << 2, 1 >>, << 0, 1 >> }
\* Entries in a subtree, subtrees under the root.
MaxCronKeys == 2
MaxCronClients == 2
\* The janitor runs at ONE_HOUR + 1 .. ONE_HOUR + MaxCronAge.
MaxCronAge == 3

NotAMap == [map |-> FALSE, entries |-> << >>]

CronSubtrees ==
    { NotAMap } \cup
    { [map |-> TRUE, entries |-> e] :
          e \in UNION { [1..n -> CronEntries] : n \in 1..MaxCronKeys } }

CronSnapshots ==
    { [map |-> FALSE, clients |-> << >>] } \cup
    { [map |-> TRUE, clients |-> c] :
          c \in UNION { [1..n -> CronSubtrees] : n \in 1..MaxCronClients } }

\* isObject(value)
IsObject(value) == value.map

\* value[BPH_VALID_UNTIL] < now, without the hour added.
IsStale_NoGrace(value, n) == ValidUntil(value) < n

\* validUntil = value[BPH_VALID_UNTIL] + ONE_HOUR; validUntil < now
IsStale(value, n) == ValidUntil(value) + ONE_HOUR < n

\* The inner loop of handleCron over the entries of one client from key on;
\* st is <<toRemove, returned>>, returned once the return statement of the
\* malformed branch has run.
RECURSIVE SweepEntries(_, _, _, _, _)
SweepEntries(cleintId, bphEntries, key, st, n) ==
    IF key > Len(bphEntries) THEN st
    ELSE IF ~IsValidBPHEntry(bphEntries[key])
         THEN [toRemove |-> st.toRemove \cup { << cleintId, key >> },
               returned |-> TRUE]
         ELSE SweepEntries(cleintId, bphEntries, key + 1,
                  IF IsStale(bphEntries[key], n)
                  THEN [st EXCEPT !.toRemove = @ \cup { << cleintId, key >> }]
                  ELSE st,
                  n)

\* The outer loop of handleCron over the clients from cleintId on.
RECURSIVE SweepClients(_, _, _, _)
SweepClients(clients, cleintId, st, n) ==
    IF cleintId > Len(clients) THEN st
    ELSE IF ~IsObject(clients[cleintId])
         THEN SweepClients(clients, cleintId + 1,
                  [st EXCEPT !.toRemove = @ \cup { << cleintId >> }], n)
         ELSE LET st1 == SweepEntries(cleintId, clients[cleintId].entries,
                                      1, st, n)
              IN  IF st1.returned THEN st1
                  ELSE SweepClients(clients, cleintId + 1, st1, n)

\* handleCron: whether it reset the root, and the paths it issued a
\* removal for.  The removals are issued after the loops; the return inside
\* them leaves before that.
HandleCron(snapshot, n) ==
    IF ~IsObject(snapshot)
    THEN [reset |-> TRUE, removals |-> {}]
    ELSE LET st == SweepClients(snapshot.clients, 1,
                       [toRemove |-> {}, returned |-> FALSE], n)
         IN  [reset |-> FALSE,
              removals |-> IF st.returned THEN {} ELSE st.toRemove]

\* No session; the janitor is about to read a snapshot of boops-per-hour.
InitJanitor ==
    /\ Constructed
    /\ ws = "closed"
    /\ boot = BootDone
    /\ gbc = StartGBC /\ gbcExists = TRUE
    /\ bphStore = EmptyMap /\ nextKey = 1 /\ others = 0
    /\ \E snapshot \in CronSnapshots, age \in 1..MaxCronAge :
           cron = [ snapshot |-> snapshot, now |-> ONE_HOUR + age,
                    ran |-> FALSE, reset |-> FALSE, removals |-> {} ]
    /\ codec = CodecIdle
    /\ conn = ConnIdle
    /\ stray = StrayNone

\* The scheduled run of handleCron.
RunCron ==
    /\ ~cron.ran
    /\ cron' = [cron EXCEPT
                  !.ran = TRUE,
                  !.reset = HandleCron(cron.snapshot, cron.now).reset,
                  !.removals = HandleCron(cron.snapshot, cron.now).removals]
    /\ UNCHANGED << now, chanVars, rateVars, bphVars, gbcVars, storeVars,
                    obsVars, sent, boot, gbcExists, others, codec, conn,
                    stray >>

\* ---------------------------------------------------------------- wire
\* A tuple of the protocol on its way: the sender builds the frame with
\* toString(36), the receiver takes it apart with its #onMessage.  A tuple
\* is a kind and its integers; the cooldown of a d reply is 0 when there is
\* none.

\* The digits 1..11 long that are lead followed by fill.
Shape(len, lead, fill) == << lead >> \o [i \in 1..(len - 1) |-> fill]

\* The integers a tuple is drawn from, as their digits: 0, the integers of
\* every width from 1 to 11 digits whose digits are a 1, a 2 or a z followed
\* by 0s or by zs, and 2^53 - 1, 2^53, 2^53 + 1.
WireDigits ==
    { << "0" >> }
    \cup { Shape(len, lead, fill) :
               len \in 1..MAX_ID_DIGITS, lead \in { "1", "2", "z" },
               fill \in { "0", "z" } }
    \cup { << "2", "g", "o", "s", "a", "7", "p", "a", "2", "g", last >> :
               last \in { "v", "w", "x" } }

WireInts == { WValue(digits) : digits \in WireDigits }

\* The tuples the client sends.
ClientTuples ==
    { [kind |-> PROTO_HEARTBEAT, fields |-> << >>] }
    \cup { [kind |-> k, fields |-> << id >>] :
               k \in { PROTO_BOOP_REQUEST, PROTO_COOLDOWN_QUERY },
               id \in WireInts }

\* The tuples the server sends.
ServerTuples ==
    { [kind |-> k, fields |-> << >>] : k \in { PROTO_HEARTBEAT, PROTO_INVALID } }
    \cup { [kind |-> k, fields |-> << n >>] :
               k \in { PROTO_BOOP_COUNT, PROTO_BOOP_REPLY }, n \in WireInts }
    \cup { [kind |-> k, fields |-> << id, ms >>] :
               k \in { PROTO_BOOP_REJECT, PROTO_COOLDOWN_REPLY },
               id \in WireInts, ms \in WireInts }

\* The strings of a field a sender holds as a Number.
FieldStrings(v) == ToString36Wide(ToNumber(v))

\* The frames the client may build of a tuple: PROTO_HEARTBEAT,
\* PROTO_BOOP_REQUEST + boopId.toString(36),
\* PROTO_COOLDOWN_QUERY + cooldownQueryId.toString(36).
ClientFrames(t) ==
    IF t.kind = PROTO_HEARTBEAT THEN { << PROTO_HEARTBEAT >> }
    ELSE { << t.kind >> \o id : id \in FieldStrings(t.fields[1]) }

\* The frames the server may build of a tuple; a d reply without a cooldown
\* has no second field.
ServerFrames(t) ==
    IF t.kind \in { PROTO_HEARTBEAT, PROTO_INVALID } THEN { << t.kind >> }
    ELSE IF t.kind \in { PROTO_BOOP_COUNT, PROTO_BOOP_REPLY }
    THEN { << t.kind >> \o n : n \in FieldStrings(t.fields[1]) }
    ELSE { << t.kind >> \o id \o << "," >> \o ms :
               id \in FieldStrings(t.fields[1]),
               ms \in FieldStrings(t.fields[2]) }
         \cup
         IF t.kind = PROTO_COOLDOWN_REPLY /\ t.fields[2] = WZero
         THEN { << t.kind >> \o id : id \in FieldStrings(t.fields[1]) }
         ELSE {}

\* /^([0-9a-z]{1,11})$/
MatchDigits(s) ==
    /\ Len(s) >= 1
    /\ Len(s) <= MAX_ID_DIGITS
    /\ \A i \in 1..Len(s) : IsDigit36(s[i])

\* The places of the commas of s.
Commas(s) == { i \in 1..Len(s) : s[i] = "," }

\* /^([0-9a-z]{1,11}),([0-9a-z]{1,11})$/
MatchPair(s) ==
    /\ Cardinality(Commas(s)) = 1
    /\ LET i == CHOOSE j \in Commas(s) : TRUE
       IN  /\ MatchDigits(SubSeq(s, 1, i - 1))
           /\ MatchDigits(SubSeq(s, i + 1, Len(s)))

\* The two groups of a match of MatchPair, parsed.
ParsePair(s) ==
    LET i == CHOOSE j \in Commas(s) : TRUE
    IN  << ParseInt36Wide(SubSeq(s, 1, i - 1)),
           ParseInt36Wide(SubSeq(s, i + 1, Len(s))) >>

\* The frame was not understood.
Undecoded == [kind |-> "none", fields |-> << >>]

\* What the #onMessage of the server makes of a text frame.
ServerDecode(data) ==
    IF data = << PROTO_HEARTBEAT >>
    THEN [kind |-> PROTO_HEARTBEAT, fields |-> << >>]
    ELSE IF StartsWith(data, PROTO_BOOP_REQUEST) /\ MatchId(data)
    THEN [kind |-> PROTO_BOOP_REQUEST,
          fields |-> << ParseInt36Wide(Tail(data)) >>]
    ELSE IF StartsWith(data, PROTO_COOLDOWN_QUERY) /\ MatchId(data)
    THEN [kind |-> PROTO_COOLDOWN_QUERY,
          fields |-> << ParseInt36Wide(Tail(data)) >>]
    ELSE Undecoded

\* What the #onMessage of the client makes of a text frame.
ClientDecode(data) ==
    IF Len(data) = 0 THEN Undecoded
    ELSE IF data = << PROTO_HEARTBEAT >>
    THEN [kind |-> PROTO_HEARTBEAT, fields |-> << >>]
    ELSE IF data = << PROTO_INVALID >>
    THEN [kind |-> PROTO_INVALID, fields |-> << >>]
    ELSE IF StartsWith(data, PROTO_BOOP_COUNT)
    THEN IF MatchDigits(Tail(data))
         THEN [kind |-> PROTO_BOOP_COUNT,
               fields |-> << ParseInt36Wide(Tail(data)) >>]
         ELSE Undecoded
    ELSE IF StartsWith(data, PROTO_BOOP_REPLY)
    THEN IF MatchDigits(Tail(data))
         THEN [kind |-> PROTO_BOOP_REPLY,
               fields |-> << ParseInt36Wide(Tail(data)) >>]
         ELSE Undecoded
    ELSE IF StartsWith(data, PROTO_BOOP_REJECT)
    THEN IF MatchPair(Tail(data))
         THEN [kind |-> PROTO_BOOP_REJECT, fields |-> ParsePair(Tail(data))]
         ELSE Undecoded
    ELSE IF StartsWith(data, PROTO_COOLDOWN_REPLY)
    THEN IF MatchDigits(Tail(data))
         THEN [kind |-> PROTO_COOLDOWN_REPLY,
               fields |-> << ParseInt36Wide(Tail(data)), WZero >>]
         ELSE IF MatchPair(Tail(data))
         THEN [kind |-> PROTO_COOLDOWN_REPLY,
               fields |-> ParsePair(Tail(data))]
         ELSE Undecoded
    ELSE Undecoded

\* No session and no janitor; a tuple is about to be sent.
InitCodec ==
    /\ Constructed
    /\ ws = "closed"
    /\ boot = BootDone
    /\ gbc = StartGBC /\ gbcExists = TRUE
    /\ bphStore = EmptyMap /\ nextKey = 1 /\ others = 0
    /\ cron = CronIdle
    /\ conn = ConnIdle
    /\ stray = StrayNone
    /\ \/ \E t \in ClientTuples :
             codec = [ stage |-> "tuple", to |-> "server", kind |-> t.kind,
                       fields |-> t.fields, frame |-> << >>, out |-> << >> ]
       \/ \E t \in ServerTuples :
             codec = [ stage |-> "tuple", to |-> "client", kind |-> t.kind,
                       fields |-> t.fields, frame |-> << >>, out |-> << >> ]

CodecUnchanged ==
    UNCHANGED << now, chanVars, rateVars, bphVars, gbcVars, storeVars,
                 obsVars, sent, boot, gbcExists, others, cron, conn, stray >>

\* The client sends the tuple.
ClientEncode ==
    /\ codec.stage = "tuple" /\ codec.to = "server"
    /\ \E data \in ClientFrames(codec) :
           codec' = [codec EXCEPT !.stage = "frame", !.frame = data]
    /\ CodecUnchanged

\* The server sends the tuple.
ServerEncode ==
    /\ codec.stage = "tuple" /\ codec.to = "client"
    /\ \E data \in ServerFrames(codec) :
           codec' = [codec EXCEPT !.stage = "frame", !.frame = data]
    /\ CodecUnchanged

\* The frame reaches the server.
ServerReceive ==
    /\ codec.stage = "frame" /\ codec.to = "server"
    /\ codec' = [codec EXCEPT !.stage = "decoded",
                              !.out = ServerDecode(codec.frame)]
    /\ CodecUnchanged

\* The frame reaches the client.
ClientReceive ==
    /\ codec.stage = "frame" /\ codec.to = "client"
    /\ codec' = [codec EXCEPT !.stage = "decoded",
                              !.out = ClientDecode(codec.frame)]
    /\ CodecUnchanged

\* --------------------------------------------------------------- client
\* The MareConnection object of the client: its socket (conn.ws, the
\* readyState), its flags, its backoff timer (conn.backoffTimeout, the delay
\* it was set with, 0 when there is none) and the window (conn.focused).
\* Observed besides: conn.heard, a message has arrived on this socket;
\* conn.gen, which changes with every new WebSocket; conn.kicked, the last
\* close had code 1002 and the page has not called connect() or reconnect()
\* since; conn.sinceMessage, the backoff timers set since the last message.

\* The codes a close event carries.
CloseCodes ==
    { INTERNAL_SERVER_ERROR_ERRCODE, NO_HEARTBEAT_ERRCODE,
      TOO_MANY_COOLDOWN_FAILS_ERRCODE, CLIENT_CLOSE_CODE }

\* #clearBackoff
ClearBackoff(c) == [c EXCEPT !.backoffTimeout = 0]

\* this.#ws = new WebSocket(this.#url); this.#hookWS()
NewWebSocket(c) ==
    [c EXCEPT !.ws = "connecting", !.heard = FALSE, !.gen = 1 - c.gen]

\* tryReconnect
TryReconnect(c) == [NewWebSocket(c) EXCEPT !.reconnectImmediately = FALSE]

\* connect()
Connect(c) ==
    LET c1 == [c EXCEPT !.reconnectOnClose = TRUE]
    IN  IF c1.ws \in { "open", "connecting" } THEN c1
        ELSE IF c1.ws = "closing"
        THEN [c1 EXCEPT !.reconnectImmediately = TRUE]
        ELSE IF c1.backoffTimeout # 0 THEN c1
        ELSE NewWebSocket(c1)

\* disconnect()
Disconnect(c) ==
    LET c1 == ClearBackoff([c EXCEPT !.reconnectOnClose = FALSE])
    IN  IF c1.ws \in { "closed", "closing" }
        THEN [c1 EXCEPT !.reconnectImmediately = FALSE]
        ELSE [c1 EXCEPT !.ws = "closing"]

\* reconnect()
Reconnect_(c) ==
    LET c1 == ClearBackoff([c EXCEPT !.reconnectOnClose = TRUE])
    IN  IF c1.ws = "closed" THEN Connect(c1)
        ELSE IF c1.ws = "closing"
        THEN [c1 EXCEPT !.reconnectImmediately = TRUE]
        ELSE [c1 EXCEPT !.reconnectImmediately = TRUE, !.ws = "closing"]

\* Math.min(BACKOFF_BASE_MS * Math.pow(2, attempts - 1), BACKOFF_MAX_MS)
BackoffDelay(attempts) ==
    IF BACKOFF_BASE_MS * 2^(attempts - 1) <= BACKOFF_MAX_MS
    THEN BACKOFF_BASE_MS * 2^(attempts - 1)
    ELSE BACKOFF_MAX_MS

\* The branch of #onCloseInner for TOO_MANY_COOLDOWN_FAILS_ERRCODE that
\* leaves connectOnFocus as it is.
Kicked_KeepFocus(c) ==
    ClearBackoff([c EXCEPT !.reconnectOnClose = FALSE,
                           !.reconnectImmediately = FALSE,
                           !.reconnectAttempts = 0])

\* The branch of #onCloseInner for TOO_MANY_COOLDOWN_FAILS_ERRCODE.
Kicked(c) ==
    ClearBackoff([c EXCEPT !.reconnectOnClose = FALSE,
                           !.reconnectImmediately = FALSE,
                           !.connectOnFocus = FALSE,
                           !.reconnectAttempts = 0])

\* boop(timeoutMs) and queryCooldown(timeoutMs) on an open socket; timed
\* says that timeoutMs is not 0.
Request(c, k, timed) ==
    LET id == c.requests.lastId[k] + 1
    IN  [c EXCEPT !.requests.lastId[k] = id,
                  !.requests.pending[k] = Put(@, id, timed),
                  !.requests.timeouts[k] = IF timed THEN @ \cup {id} ELSE @,
                  !.requests.settled[k] = Put(@, id, << >>)]

\* The resolve or reject of an entry is called: the wrapped pair clears the
\* local timer first.
Settle(c, k, id, wrapped, outcome) ==
    [c EXCEPT !.requests.timeouts[k] = IF wrapped THEN @ \ {id} ELSE @,
              !.requests.settled[k][id] = Append(@, outcome)]

\* The branch of #onMessage for a reply to request id: an unknown id is
\* logged, a known one is taken out of the map and settled.
Answer(c, k, id, outcome) ==
    IF id \notin DOMAIN c.requests.pending[k] THEN c
    ELSE Settle([c EXCEPT !.requests.pending[k] = Del(@, id)], k, id,
                c.requests.pending[k][id], outcome)

\* The integer of a wide integer.
WInt(w) == (w[1] * Limb + w[2]) * Limb + w[3]

\* #onMessage(event) of the client after its first statement.
OnMessageInner(c, data) ==
    LET m == ClientDecode(data)
    IN  IF m.kind = PROTO_BOOP_REPLY
        THEN Answer(c, "boop", WInt(m.fields[1]), "accepted")
        ELSE IF m.kind = PROTO_BOOP_REJECT
        THEN Answer(c, "boop", WInt(m.fields[1]), "rejected")
        ELSE IF m.kind = PROTO_COOLDOWN_REPLY
        THEN Answer(c, "query", WInt(m.fields[1]), "cooldown")
        ELSE c

\* The callback of the local timer of request id.
RequestTimeout(c, k, id) ==
    [c EXCEPT !.requests.pending[k] = Del(@, id),
              !.requests.timeouts[k] = @ \ {id},
              !.requests.settled[k][id] = Append(@, "timeout")]

\* The two loops of #onCloseInner with entries that leave their timers set.
RejectPending_KeepTimers(c) ==
    [c EXCEPT !.requests.pending = [k \in RequestKinds |-> EmptyMap],
              !.requests.settled =
                  [k \in RequestKinds |->
                      [id \in DOMAIN c.requests.settled[k] |->
                          IF id \in DOMAIN c.requests.pending[k]
                          THEN Append(c.requests.settled[k][id], "network")
                          ELSE c.requests.settled[k][id]]]]

\* The two loops of #onCloseInner: every pending boop and cooldown query is
\* rejected with MareNetworkError and the maps are cleared.
RejectPending(c) ==
    [c EXCEPT !.requests.pending = [k \in RequestKinds |-> EmptyMap],
              !.requests.timeouts =
                  [k \in RequestKinds |->
                      c.requests.timeouts[k] \
                          { id \in DOMAIN c.requests.pending[k] :
                                c.requests.pending[k][id] }],
              !.requests.settled =
                  [k \in RequestKinds |->
                      [id \in DOMAIN c.requests.settled[k] |->
                          IF id \in DOMAIN c.requests.pending[k]
                          THEN Append(c.requests.settled[k][id], "network")
                          ELSE c.requests.settled[k][id]]]]

\* #onCloseInner(event) after the pending requests have been rejected.
Reconnection(c, code) ==
    IF code = TOO_MANY_COOLDOWN_FAILS_ERRCODE THEN Kicked(c)
    ELSE IF ~c.reconnectOnClose THEN c
    ELSE IF ~c.reconnectImmediately /\ ~c.focused
    THEN [c EXCEPT !.connectOnFocus = TRUE]
    ELSE IF c.reconnectImmediately THEN TryReconnect(c)
    ELSE [c EXCEPT !.reconnectAttempts = c.reconnectAttempts + 1,
                   !.backoffTimeout = BackoffDelay(c.reconnectAttempts + 1),
                   !.sinceMessage = c.sinceMessage + 1]

\* #onCloseInner(event), event.code = code, on the closed socket.
OnCloseInner(c, code) == Reconnection(RejectPending(c), code)

ClientUnchanged ==
    UNCHANGED << now, chanVars, rateVars, bphVars, gbcVars, storeVars,
                 obsVars, sent, boot, gbcExists, others, cron, codec, stray >>

\* new MareConnection(url): the first socket is connecting.
InitClient ==
    /\ Constructed
    /\ ws = "closed"
    /\ boot = BootDone
    /\ gbc = StartGBC /\ gbcExists = TRUE
    /\ bphStore = EmptyMap /\ nextKey = 1 /\ others = 0
    /\ cron = CronIdle
    /\ codec = CodecIdle
    /\ stray = StrayNone
    /\ \E focused \in BOOLEAN :
           conn = [ ws |-> "connecting", reconnectOnClose |-> TRUE,
                    reconnectImmediately |-> TRUE, connectOnFocus |-> FALSE,
                    reconnectAttempts |-> 0, backoffTimeout |-> 0,
                    focused |-> focused, heard |-> FALSE, gen |-> 0,
                    kicked |-> FALSE, sinceMessage |-> 0,
                    requests |-> RequestsNone ]

\* The page calls connect().
PageConnect ==
    /\ conn' = [Connect(conn) EXCEPT !.kicked = FALSE]
    /\ ClientUnchanged

\* The page calls disconnect().
PageDisconnect ==
    /\ conn' = Disconnect(conn)
    /\ ClientUnchanged

\* The page calls reconnect().
PageReconnect ==
    /\ conn' = [Reconnect_(conn) EXCEPT !.kicked = FALSE]
    /\ ClientUnchanged

\* The window gains focus: the listener the constructor installed.
WindowFocus ==
    /\ ~conn.focused
    /\ conn' = IF conn.connectOnFocus
               THEN Connect([conn EXCEPT !.focused = TRUE,
                                         !.connectOnFocus = FALSE])
               ELSE [conn EXCEPT !.focused = TRUE]
    /\ ClientUnchanged

\* The window loses focus.
WindowBlur ==
    /\ conn.focused
    /\ conn' = [conn EXCEPT !.focused = FALSE]
    /\ ClientUnchanged

\* The socket opens: #onOpen.
SocketOpen ==
    /\ conn.ws = "connecting"
    /\ conn' = ClearBackoff([conn EXCEPT !.ws = "open"])
    /\ ClientUnchanged

\* A frame arrives: the first statement of #onMessage.
SocketMessage ==
    /\ conn.ws \in { "open", "closing" }
    /\ conn' = [conn EXCEPT !.reconnectAttempts = 0, !.heard = TRUE,
                            !.sinceMessage = 0]
    /\ ClientUnchanged

\* The socket closes with code: #onClose.  The server closes with
\* TOO_MANY_COOLDOWN_FAILS_ERRCODE only after it has sent frames on this
\* socket: the count after the accept and the rejects.
SocketClose(code) ==
    /\ conn.ws # "closed"
    /\ code = TOO_MANY_COOLDOWN_FAILS_ERRCODE => conn.heard
    /\ conn.reconnectAttempts < MaxAttempts
    /\ conn' = OnCloseInner(
                   [conn EXCEPT !.ws = "closed",
                       !.kicked = (code = TOO_MANY_COOLDOWN_FAILS_ERRCODE)],
                   code)
    /\ ClientUnchanged

\* The backoff timer fires.
BackoffFire ==
    /\ conn.backoffTimeout # 0
    /\ conn' = TryReconnect(ClearBackoff(conn))
    /\ ClientUnchanged

\* The frames the server sends in reply, for every id the page may have
\* used, besides a count and a frame that does not parse.
ReplyFrames ==
    UNION { { BoopReplyFrame(id), BoopRejectFrame(id, 1),
              CooldownReplyFrame(id), CooldownReplyMsFrame(id, 1) } :
            id \in 1..MaxRequests }
        \cup { BoopCountFrame(1), << PROTO_BOOP_REPLY >> }

\* The calls of boop() and queryCooldown() that were given an id.
RequestsMade ==
    conn.requests.lastId["boop"] + conn.requests.lastId["query"]

\* The page calls boop(timeoutMs) on an open socket.
PageBoop(timed) ==
    /\ conn.ws = "open"
    /\ RequestsMade < MaxRequests
    /\ conn' = Request(conn, "boop", timed)
    /\ ClientUnchanged

\* The page calls queryCooldown(timeoutMs) on an open socket.
PageQueryCooldown(timed) ==
    /\ conn.ws = "open"
    /\ RequestsMade < MaxRequests
    /\ conn' = Request(conn, "query", timed)
    /\ ClientUnchanged

\* The local timer of a request fires.
RequestTimeoutFire(k, id) ==
    /\ id \in conn.requests.timeouts[k]
    /\ conn' = RequestTimeout(conn, k, id)
    /\ ClientUnchanged

\* The frame data arrives: #onMessage.
SocketFrame(data) ==
    /\ conn.ws \in { "open", "closing" }
    /\ conn' = OnMessageInner(
                   [conn EXCEPT !.reconnectAttempts = 0, !.heard = TRUE,
                                !.sinceMessage = 0],
                   data)
    /\ ClientUnchanged

\* ------------------------------------------------------ stray store events
\* The entries that reach boops-per-hour/<id> from elsewhere: a well-formed
\* one and a malformed one (validUntil not positive).
StrayEntries == { << 3, 1 >>, << 0, 1 >> }

\* Something other than this session writes an entry to the subtree.
StrayWrite(val) ==
    /\ stray.writes < MaxStray
    /\ stray' = [stray EXCEPT !.writes = stray.writes + 1]
    /\ bphStore' = Put(bphStore, nextKey, val)
    /\ nextKey' = nextKey + 1
    /\ sent' = << >>
    /\ UNCHANGED << now, chanVars, rateVars, bphVars, gbcVars, obsVars, gbc,
                    pushes, removes, gbcEvents, notified, external, boot,
                    gbcExists, others, cron, codec, conn >>

\* The store is about to report a child of the subtree once more: the
\* child-added event of key k will be delivered again.
Resend(k) ==
    /\ listening
    /\ k \in notified \cap DOMAIN bphStore
    /\ stray.repeats < MaxRepeats
    /\ stray' = [stray EXCEPT !.repeats = stray.repeats + 1]
    /\ notified' = notified \ {k}
    /\ sent' = << >>
    /\ UNCHANGED << now, chanVars, rateVars, bphVars, gbcVars, obsVars, gbc,
                    bphStore, nextKey, pushes, removes, gbcEvents, external,
                    boot, gbcExists, others, cron, codec, conn >>

\* ------------------------------------------------------- specification
\* What the session does: its handlers, its timers, its shutdown, and the
\* client connecting again.
SessionStep ==
    \/ Tick
    \/ HeartbeatFire
    \/ GbcTimerFire
    \/ BphIntervalFire
    \/ \E data \in Frames \cup { Binary } : OnMessage(data)
    \/ \E k \in DOMAIN bphRemoveTimeouts : RemoveTimerFire(k)
    \/ ClientClose
    \/ CloseEvent
    \/ Release
    \/ Reconnect

\* What the store does with boops-per-hour/<id>.
BphStoreStep ==
    \/ \E i \in 1..Len(pushes) : PushOk(i)
    \/ \E i \in 1..Len(pushes) : PushFail(i)
    \/ \E k \in DOMAIN bphStore : OnBPHChildAdded(k)
    \/ \E k \in notified : OnBPHChildRemoved(k)
    \/ \E k \in removes : RemoveOk(k)
    \/ \E k \in removes : RemoveFail(k)

\* What the store does with boop-count.
GbcStoreStep ==
    \/ GbcAddOk
    \/ GbcAddFail
    \/ OnGBCChange
    \/ ExternalAdd

Next == SessionStep \/ BphStoreStep \/ GbcStoreStep

\* The program with a store that answers whenever it likes.
Spec == Init /\ [][Next]_vars

\* The rate limiter, the ledger and the channel read no variable of the GBC
\* scheduler, so for them the store may as well answer every atomic add at
\* once, with success, and deliver every change of boop-count at once.
\* One session object, the client sending a heartbeat, a boop request or a
\* cooldown query.
GbcBusy == gbcSyncPromise # 0 \/ (listening /\ gbcEvents # << >>)

LimiterFrames == { << "h" >>, << "b", "1" >>, << "d", "1" >> }

NextLimiter ==
    \/ GbcBusy /\ GbcAddOk
    \/ GbcBusy /\ OnGBCChange
    \/ ~GbcBusy /\ Tick
    \/ ~GbcBusy /\ HeartbeatFire
    \/ ~GbcBusy /\ GbcTimerFire
    \/ ~GbcBusy /\ BphIntervalFire
    \/ ~GbcBusy /\ \E data \in LimiterFrames : OnMessage(data)
    \/ ~GbcBusy /\ \E k \in DOMAIN bphRemoveTimeouts : RemoveTimerFire(k)
    \/ ~GbcBusy /\ ClientClose
    \/ ~GbcBusy /\ CloseEvent
    \/ ~GbcBusy /\ Release
    \/ ~GbcBusy /\ \E i \in 1..Len(pushes) : PushOk(i)
    \/ ~GbcBusy /\ \E i \in 1..Len(pushes) : PushFail(i)
    \/ ~GbcBusy /\ \E k \in DOMAIN bphStore : OnBPHChildAdded(k)
    \/ ~GbcBusy /\ \E k \in notified : OnBPHChildRemoved(k)
    \/ ~GbcBusy /\ \E k \in removes : RemoveOk(k)
    \/ ~GbcBusy /\ \E k \in removes : RemoveFail(k)

SpecLimiter == Init /\ [][NextLimiter]_vars

\* The sessions of one client, one after the other, the client sending
\* boop requests only, so that a session lives for one heartbeat timeout at
\* most; the store answers atomic adds as in SpecLimiter.
SessionFrames == { << "b", "1" >> }

NextSessions ==
    \/ GbcBusy /\ GbcAddOk
    \/ GbcBusy /\ OnGBCChange
    \/ ~GbcBusy /\ Tick
    \/ ~GbcBusy /\ HeartbeatFire
    \/ ~GbcBusy /\ GbcTimerFire
    \/ ~GbcBusy /\ BphIntervalFire
    \/ ~GbcBusy /\ \E data \in SessionFrames : OnMessage(data)
    \/ ~GbcBusy /\ \E k \in DOMAIN bphRemoveTimeouts : RemoveTimerFire(k)
    \/ ~GbcBusy /\ ClientClose
    \/ ~GbcBusy /\ CloseEvent
    \/ ~GbcBusy /\ Release
    \/ ~GbcBusy /\ Reconnect
    \/ ~GbcBusy /\ \E i \in 1..Len(pushes) : PushOk(i)
    \/ ~GbcBusy /\ \E i \in 1..Len(pushes) : PushFail(i)
    \/ ~GbcBusy /\ \E k \in DOMAIN bphStore : OnBPHChildAdded(k)
    \/ ~GbcBusy /\ \E k \in notified : OnBPHChildRemoved(k)
    \/ ~GbcBusy /\ \E k \in removes : RemoveOk(k)
    \/ ~GbcBusy /\ \E k \in removes : RemoveFail(k)

SpecSessions == Init /\ [][NextSessions]_vars

\* The GBC scheduler and the displayed count read no variable of the ledger
\* but through the admission of a boop, so for them the store may as well
\* answer every push and removal at once, with success, and deliver every
\* child event at once.  One session object, the client sending boop
\* requests only.
BphBusy ==
    \/ pushes # << >>
    \/ removes # {}
    \/ listening /\ DOMAIN bphStore # notified

NextDisplay ==
    \/ BphBusy /\ \E i \in 1..Len(pushes) : PushOk(i)
    \/ BphBusy /\ \E k \in removes : RemoveOk(k)
    \/ BphBusy /\ \E k \in DOMAIN bphStore : OnBPHChildAdded(k)
    \/ BphBusy /\ \E k \in notified : OnBPHChildRemoved(k)
    \/ ~BphBusy /\ Tick
    \/ ~BphBusy /\ HeartbeatFire
    \/ ~BphBusy /\ GbcTimerFire
    \/ ~BphBusy /\ BphIntervalFire
    \/ ~BphBusy /\ \E data \in SessionFrames : OnMessage(data)
    \/ ~BphBusy /\ \E k \in DOMAIN bphRemoveTimeouts : RemoveTimerFire(k)
    \/ ~BphBusy /\ ClientClose
    \/ ~BphBusy /\ CloseEvent
    \/ ~BphBusy /\ Release
    \/ ~BphBusy /\ GbcAddOk
    \/ ~BphBusy /\ GbcAddFail
    \/ ~BphBusy /\ OnGBCChange
    \/ ~BphBusy /\ ExternalAdd

SpecDisplay == Init /\ [][NextDisplay]_vars

\* The dispatch of a frame reads the frame and, for a request, the rate
\* limiter; here the client sends every frame of Frames and binary frames,
\* and the store answers every operation at once, with success.  One
\* session object.
NextProtocol ==
    \/ GbcBusy /\ GbcAddOk
    \/ GbcBusy /\ OnGBCChange
    \/ BphBusy /\ \E i \in 1..Len(pushes) : PushOk(i)
    \/ BphBusy /\ \E k \in removes : RemoveOk(k)
    \/ BphBusy /\ \E k \in DOMAIN bphStore : OnBPHChildAdded(k)
    \/ BphBusy /\ \E k \in notified : OnBPHChildRemoved(k)
    \/ ~GbcBusy /\ ~BphBusy /\ Tick
    \/ ~GbcBusy /\ ~BphBusy /\ HeartbeatFire
    \/ ~GbcBusy /\ ~BphBusy /\ GbcTimerFire
    \/ ~GbcBusy /\ ~BphBusy /\ BphIntervalFire
    \/ ~GbcBusy /\ ~BphBusy /\ \E data \in Frames \cup { Binary } : OnMessage(data)
    \/ ~GbcBusy /\ ~BphBusy
           /\ \E k \in DOMAIN bphRemoveTimeouts : RemoveTimerFire(k)
    \/ ~GbcBusy /\ ~BphBusy /\ ClientClose
    \/ ~GbcBusy /\ ~BphBusy /\ CloseEvent
    \/ ~GbcBusy /\ ~BphBusy /\ Release

SpecProtocol == Init /\ [][NextProtocol]_vars

\* The start of a session, one await at a time, while other sessions add
\* to boop-count and push to their own subtrees; the clock stands still.
NextBoot ==
    \/ SignInOk
    \/ SignInFail
    \/ BphRootGet
    \/ BphRootSet
    \/ BphOwnGet
    \/ BphOwnSet
    \/ BphInitFail
    \/ GbcGet
    \/ GbcSet
    \/ GbcInitFail
    \/ InitFailed
    \/ AfterAsyncInit
    \/ OnGBCChange
    \/ OtherAdd
    \/ OtherPush

SpecBoot == InitBoot /\ [][NextBoot]_vars

\* The GBC scheduler with the client keeping the session alive or not: the
\* client sends heartbeats and boop requests, the BPH store answers at
\* once, an atomic add succeeds or fails; the ledger starts empty, the GBC
\* scheduler never reading it, so no entry expires before the clock ends and
\* nothing is removed.  The clock advances, a due timer
\* fires, and the store answers every operation in the end.
LiveFrames == { << "h" >>, << "b", "1" >> }

NextGbcLive ==
    \/ BphBusy /\ \E i \in 1..Len(pushes) : PushOk(i)
    \/ BphBusy /\ \E k \in DOMAIN bphStore : OnBPHChildAdded(k)
    \/ ~BphBusy /\ Tick
    \/ ~BphBusy /\ HeartbeatFire
    \/ ~BphBusy /\ GbcTimerFire
    \/ ~BphBusy /\ BphIntervalFire
    \/ ~BphBusy /\ \E data \in LiveFrames : OnMessage(data)
    \/ ~BphBusy /\ ClientClose
    \/ ~BphBusy /\ CloseEvent
    \/ ~BphBusy /\ Release
    \/ ~BphBusy /\ GbcAddOk
    \/ ~BphBusy /\ GbcAddFail
    \/ ~BphBusy /\ OnGBCChange

GbcLiveFairness ==
    /\ WF_vars(BphBusy /\ \E i \in 1..Len(pushes) : PushOk(i))
    /\ WF_vars(BphBusy /\ \E k \in DOMAIN bphStore : OnBPHChildAdded(k))
    /\ WF_vars(~BphBusy /\ Tick)
    /\ WF_vars(~BphBusy /\ HeartbeatFire)
    /\ WF_vars(~BphBusy /\ GbcTimerFire)
    /\ WF_vars(~BphBusy /\ BphIntervalFire)
    /\ WF_vars(~BphBusy /\ CloseEvent)
    /\ WF_vars(~BphBusy /\ (GbcAddOk \/ GbcAddFail))

\* The session of a client whose ledger is empty.
InitFresh == Init /\ DOMAIN bphStore = {}

SpecGbcLive == InitFresh /\ [][NextGbcLive]_vars /\ GbcLiveFairness

\* The BPH ledger with the client keeping the session alive or not: the
\* client sends heartbeats and, outside a cooldown it was told of, boop
\* requests, and never closes the channel; the GBC store answers at once
\* with success, a push succeeds or fails; the ledger starts empty, so no
\* entry expires before the clock ends.  The clock advances, a due timer
\* fires, and the store answers every operation in the end.  The clock
\* runs to MaxLiveTime, past the second interval sync.
NextBphLive ==
    \/ GbcBusy /\ GbcAddOk
    \/ GbcBusy /\ OnGBCChange
    \/ ~GbcBusy /\ TickTo(MaxLiveTime)
    \/ ~GbcBusy /\ HeartbeatFire
    \/ ~GbcBusy /\ GbcTimerFire
    \/ ~GbcBusy /\ BphIntervalFire
    \/ ~GbcBusy /\ OnMessage(<< "h" >>)
    \/ ~GbcBusy /\ cooldownUntil <= now /\ OnMessage(<< "b", "1" >>)
    \/ ~GbcBusy /\ CloseEvent
    \/ ~GbcBusy /\ Release
    \/ ~GbcBusy /\ \E i \in 1..Len(pushes) : PushOk(i)
    \/ ~GbcBusy /\ \E i \in 1..Len(pushes) : PushFail(i)
    \/ ~GbcBusy /\ \E k \in DOMAIN bphStore : OnBPHChildAdded(k)

BphLiveFairness ==
    /\ WF_vars(GbcBusy /\ GbcAddOk)
    /\ WF_vars(GbcBusy /\ OnGBCChange)
    /\ WF_vars(~GbcBusy /\ TickTo(MaxLiveTime))
    /\ WF_vars(~GbcBusy /\ HeartbeatFire)
    /\ WF_vars(~GbcBusy /\ GbcTimerFire)
    /\ WF_vars(~GbcBusy /\ BphIntervalFire)
    /\ WF_vars(~GbcBusy /\ CloseEvent)
    /\ WF_vars(~GbcBusy /\ \E i \in 1..Len(pushes) : PushOk(i) \/ PushFail(i))
    /\ WF_vars(~GbcBusy /\ \E k \in DOMAIN bphStore : OnBPHChildAdded(k))

SpecBphLive == InitFresh /\ [][NextBphLive]_vars /\ BphLiveFairness

\* The store failing: every atomic add, push and removal is answered at
\* once, with success or with failure, and every event is delivered at
\* once; the client sends heartbeats and boop requests.  One session
\* object.
NextFailures ==
    \/ GbcBusy /\ GbcAddOk
    \/ GbcBusy /\ GbcAddFail
    \/ GbcBusy /\ OnGBCChange
    \/ BphBusy /\ \E i \in 1..Len(pushes) : PushOk(i)
    \/ BphBusy /\ \E i \in 1..Len(pushes) : PushFail(i)
    \/ BphBusy /\ \E k \in removes : RemoveOk(k)
    \/ BphBusy /\ \E k \in removes : RemoveFail(k)
    \/ BphBusy /\ \E k \in DOMAIN bphStore : OnBPHChildAdded(k)
    \/ BphBusy /\ \E k \in notified : OnBPHChildRemoved(k)
    \/ ~GbcBusy /\ ~BphBusy /\ Tick
    \/ ~GbcBusy /\ ~BphBusy /\ HeartbeatFire
    \/ ~GbcBusy /\ ~BphBusy /\ GbcTimerFire
    \/ ~GbcBusy /\ ~BphBusy /\ BphIntervalFire
    \/ ~GbcBusy /\ ~BphBusy /\ \E data \in LiveFrames : OnMessage(data)
    \/ ~GbcBusy /\ ~BphBusy
           /\ \E k \in DOMAIN bphRemoveTimeouts : RemoveTimerFire(k)
    \/ ~GbcBusy /\ ~BphBusy /\ ClientClose
    \/ ~GbcBusy /\ ~BphBusy /\ CloseEvent
    \/ ~GbcBusy /\ ~BphBusy /\ Release

SpecFailures == Init /\ [][NextFailures]_vars

\* The janitor alone, on every snapshot of CronSnapshots.
NextJanitor ==
    \/ RunCron

SpecJanitor == InitJanitor /\ [][NextJanitor]_vars

\* The codec alone, on every tuple of ClientTuples and ServerTuples.
NextCodec ==
    \/ ClientEncode
    \/ ServerEncode
    \/ ServerReceive
    \/ ClientReceive

SpecCodec == InitCodec /\ [][NextCodec]_vars

\* The client alone: the page calls its methods, the window gains and loses
\* focus, the socket opens, hears and closes with any code.
NextClient ==
    \/ PageConnect
    \/ PageDisconnect
    \/ PageReconnect
    \/ WindowFocus
    \/ WindowBlur
    \/ SocketOpen
    \/ SocketMessage
    \/ \E code \in CloseCodes : SocketClose(code)
    \/ BackoffFire

SpecClient == InitClient /\ [][NextClient]_vars

\* The mirror of the ledger under every event the store can send: children
\* added (well-formed, malformed, or reported a second time) and removed
\* (mirrored or never mirrored), while the clock runs and the timers of the
\* entries fire.  The client is silent, so the session ends with the
\* heartbeat timeout.
NextMirror ==
    \/ Tick
    \/ HeartbeatFire
    \/ GbcTimerFire
    \/ BphIntervalFire
    \/ CloseEvent
    \/ \E k \in DOMAIN bphRemoveTimeouts : RemoveTimerFire(k)
    \/ \E k \in removes : RemoveOk(k)
    \/ \E k \in removes : RemoveFail(k)
    \/ \E k \in DOMAIN bphStore : OnBPHChildAdded(k)
    \/ \E k \in notified : OnBPHChildRemoved(k)
    \/ \E val \in StrayEntries : StrayWrite(val)
    \/ \E k \in notified : Resend(k)

SpecMirror == Init /\ [][NextMirror]_vars

\* The shutdown flush with a store that never fails: the environment of
\* NextDisplay (the BPH store answers at once, the atomic add after any
\* delay) without the failure of the atomic add.
NextFlush ==
    \/ BphBusy /\ \E i \in 1..Len(pushes) : PushOk(i)
    \/ BphBusy /\ \E k \in removes : RemoveOk(k)
    \/ BphBusy /\ \E k \in DOMAIN bphStore : OnBPHChildAdded(k)
    \/ BphBusy /\ \E k \in notified : OnBPHChildRemoved(k)
    \/ ~BphBusy /\ Tick
    \/ ~BphBusy /\ HeartbeatFire
    \/ ~BphBusy /\ GbcTimerFire
    \/ ~BphBusy /\ BphIntervalFire
    \/ ~BphBusy /\ \E data \in SessionFrames : OnMessage(data)
    \/ ~BphBusy /\ \E k \in DOMAIN bphRemoveTimeouts : RemoveTimerFire(k)
    \/ ~BphBusy /\ ClientClose
    \/ ~BphBusy /\ CloseEvent
    \/ ~BphBusy /\ Release
    \/ ~BphBusy /\ GbcAddOk
    \/ ~BphBusy /\ OnGBCChange
    \/ ~BphBusy /\ ExternalAdd

SpecFlush == Init /\ [][NextFlush]_vars

\* The ledgers the walk of #getCooldown is followed on: up to MaxWalkEntries
\* entries earlier sessions left, among them the entry of BPH_LIMIT boops
\* pushed at the instant the session starts.
WalkEntries ==
    { << 2, 1 >>, << 3, 2 >>, << 4, BPH_LIMIT >>,
      << 1 + ONE_HOUR, BPH_LIMIT >> }

WalkLedgers == UNION { [1..n -> WalkEntries] : n \in 0..MaxWalkEntries }

\* Init with the ledger drawn from WalkLedgers.
InitWalk ==
    /\ now = 1
    /\ \E m \in WalkLedgers :
          /\ bphStore = [k \in DOMAIN m |-> m[k]]
          /\ bph = Mirror(m).bph
          /\ lastBPH = Mirror(m).lastBPH
          /\ bphRemoveTimeouts = Mirror(m).timeouts
          /\ removes = Mirror(m).invalid
          /\ notified = DOMAIN m
          /\ nextKey = Len(m) + 1
          /\ openLedger = [k \in DOMAIN m |-> m[k]]
    /\ gbc = StartGBC
    /\ ws = "open" /\ closeCode = 0
    /\ heartbeatTimeout = now + HEARTBEAT_TIMEOUT
    /\ listening = TRUE
    /\ flush = [gbc |-> FALSE, bph |-> FALSE, released |-> FALSE]
    /\ cooldownUntil = 0 /\ cooldownFails = 0 /\ bpmBoops = << >>
    /\ unsyncedBPH = 0
    /\ bphSyncInterval = now + BPH_SYNC_INTERVAL
    /\ lastGBC = StartGBC /\ unsyncedGBC = 0 /\ lastGBCSync = 0
    /\ gbcSyncPromise = 0
    /\ gbcSyncTimeout = now + GBC_SYNC_INTERVAL
    /\ pushes = << >> /\ gbcEvents = << >> /\ external = 0
    /\ sent = << BoopCountFrame(StartGBC) >>
    /\ admitted = << >>
    /\ lastShown = Shown(sent, 0)
    /\ session = 1
    /\ lastBeat = now
    /\ boot = BootDone
    /\ gbcExists = TRUE
    /\ others = 0
    /\ cron = CronIdle
    /\ codec = CodecIdle
    /\ conn = ConnIdle
    /\ stray = StrayNone

\* The rate limiter over the ledgers of WalkLedgers: the client sends
\* heartbeats and boop requests, the timers fire, the GBC store answers at
\* once and with success, a push is answered at once, with success or
\* failure, and its child-added delivered at once, a removal succeeds after
\* any delay.
WalkFrames == { << "h" >>, << "b", "1" >> }

WalkBusy ==
    \/ GbcBusy
    \/ pushes # << >>
    \/ listening /\ DOMAIN bphStore \ notified # {}

NextWalk ==
    \/ GbcBusy /\ GbcAddOk
    \/ GbcBusy /\ OnGBCChange
    \/ ~GbcBusy /\ \E i \in 1..Len(pushes) : PushOk(i)
    \/ ~GbcBusy /\ \E i \in 1..Len(pushes) : PushFail(i)
    \/ ~GbcBusy /\ \E k \in DOMAIN bphStore : OnBPHChildAdded(k)
    \/ ~WalkBusy /\ Tick
    \/ ~WalkBusy /\ HeartbeatFire
    \/ ~WalkBusy /\ GbcTimerFire
    \/ ~WalkBusy /\ BphIntervalFire
    \/ ~WalkBusy /\ \E data \in WalkFrames : OnMessage(data)
    \/ ~WalkBusy /\ \E k \in DOMAIN bphRemoveTimeouts : RemoveTimerFire(k)
    \/ ~WalkBusy /\ CloseEvent
    \/ ~WalkBusy /\ Release
    \/ ~WalkBusy /\ \E k \in notified : OnBPHChildRemoved(k)
    \/ ~WalkBusy /\ \E k \in removes : RemoveOk(k)

SpecWalk == InitWalk /\ [][NextWalk]_vars

\* The rate limiter with a store that answers every operation at once and
\* with success, and punctual timers: an entry leaves the mirror at its
\* validUntil, before any frame of that instant is handled.  The client
\* sends heartbeats, boop requests and cooldown queries.
StoreBusy == GbcBusy \/ BphBusy

NextEarliest ==
    \/ GbcBusy /\ GbcAddOk
    \/ GbcBusy /\ OnGBCChange
    \/ BphBusy /\ \E i \in 1..Len(pushes) : PushOk(i)
    \/ BphBusy /\ \E k \in removes : RemoveOk(k)
    \/ BphBusy /\ \E k \in DOMAIN bphStore : OnBPHChildAdded(k)
    \/ BphBusy /\ \E k \in notified : OnBPHChildRemoved(k)
    \/ ~StoreBusy /\ Tick
    \/ ~StoreBusy /\ HeartbeatFire
    \/ ~StoreBusy /\ GbcTimerFire
    \/ ~StoreBusy /\ BphIntervalFire
    \/ ~StoreBusy /\ \E data \in LimiterFrames : OnMessage(data)
    \/ ~StoreBusy /\ \E k \in DOMAIN bphRemoveTimeouts : RemoveTimerFire(k)
    \/ ~StoreBusy /\ CloseEvent
    \/ ~StoreBusy /\ Release

SpecEarliest == InitWalk /\ [][NextEarliest]_vars

\* The close of a channel the session installed no listener on: #onClose is
\* not registered before #afterAsyncInit, so nothing of the session runs.
UnheardClose ==
    /\ ws = "closing"
    /\ ~boot.handlers
    /\ ws' = "closed"
    /\ sent' = << >>
    /\ UNCHANGED << now, closeCode, heartbeatTimeout, listening, flush,
                    rateVars, bphVars, gbcVars, storeVars, obsVars,
                    apartVars >>

\* The start of a session as in NextBoot, and the close of the channel
\* after a failed start.
NextBootClose ==
    \/ SignInOk
    \/ SignInFail
    \/ BphRootGet
    \/ BphRootSet
    \/ BphOwnGet
    \/ BphOwnSet
    \/ BphInitFail
    \/ GbcGet
    \/ GbcSet
    \/ GbcInitFail
    \/ InitFailed
    \/ AfterAsyncInit
    \/ OnGBCChange
    \/ OtherAdd
    \/ OtherPush
    \/ UnheardClose

SpecBootClose == InitBoot /\ [][NextBootClose]_vars

\* The client and its requests: the page makes requests with and without a
\* timeout, disconnects and reconnects, the server sends any reply frame
\* any number of times, the local timers fire, the socket closes with any
\* code and the client connects again at once or after its backoff.  The
\* window keeps the focus it has.
NextRequests ==
    \/ PageDisconnect
    \/ PageReconnect
    \/ SocketOpen
    \/ \E data \in ReplyFrames : SocketFrame(data)
    \/ \E code \in CloseCodes : SocketClose(code)
    \/ BackoffFire
    \/ \E timed \in BOOLEAN : PageBoop(timed)
    \/ \E timed \in BOOLEAN : PageQueryCooldown(timed)
    \/ \E k \in RequestKinds, id \in 1..MaxRequests : RequestTimeoutFire(k, id)

SpecRequests == InitClient /\ [][NextRequests]_vars

TypeOK ==
    /\ now \in 1..Max(MaxTime, MaxLiveTime)
    /\ ws \in { "pending", "open", "closing", "closed" }
    /\ cooldownFails \in 0..(CD_FAIL_LIMIT + 1)
    /\ unsyncedBPH \in Nat /\ unsyncedGBC \in Nat
    /\ gbcSyncPromise \in Nat

\* ------------------------------------------------------------ properties
\* The boops of this session admitted at a time t with from <= t < from + len.
AdmittedIn(from, len) ==
    Cardinality({ i \in 1..Len(admitted) :
                    from <= admitted[i] /\ admitted[i] < from + len })

\* The boop requests among the frames the client sends.
BoopFrames == { data \in Frames : Kind(data) = "boop" }

\* A step that handles a boop request.
BoopStep == \E data \in BoopFrames : OnMessage(data)

\* cooldownUntil is non-zero and now < cooldownUntil.
ActiveCooldown == cooldownUntil # 0 /\ now < cooldownUntil

\* The tags of the frames a step sent.
SentTags == [i \in 1..Len(sent) |-> sent[i][1]]

\* C1 (BPM cap): in every window of ONE_MINUTE, [t, t + ONE_MINUTE), the
\* session admitted at most BPM_LIMIT boops.
C1_BpmCap ==
    \A t \in (2 - ONE_MINUTE)..MaxTime : AdmittedIn(t, ONE_MINUTE) <= BPM_LIMIT

\* A full window, and a boop admitted once the window had moved on.
C1_Witness ==
    /\ AdmittedIn(1, ONE_MINUTE) = BPM_LIMIT
    /\ Len(admitted) > BPM_LIMIT
    /\ admitted[Len(admitted)] = 1 + ONE_MINUTE

\* C2 (BPH cap within a session): in every window of ONE_HOUR the session
\* admitted at most BPH_LIMIT boops, whatever the order of boop requests,
\* #syncBPH runs, push completions and child events.
C2_BphCap ==
    \A t \in (2 - ONE_HOUR)..MaxTime : AdmittedIn(t, ONE_HOUR) <= BPH_LIMIT

\* The entries of the ledger m that are valid and not expired at time n.
Unexpired(m, n) ==
    [k \in { x \in DOMAIN m : IsValidBPHEntry(m[x]) /\ ValidUntil(m[x]) > n }
        |-> m[k]]

C4_NoAdmissionInCooldown ==
    [][ BoopStep /\ ActiveCooldown =>
            /\ UNCHANGED << bpmBoops, unsyncedBPH, unsyncedGBC, lastGBC >>
            /\ admitted' = admitted
            /\ \A i \in 1..Len(sent') : sent'[i][1] # PROTO_BOOP_REPLY ]_vars

\* A boop was rejected during an active cooldown.
C4_Witness ==
    /\ ActiveCooldown
    /\ cooldownFails >= 1
    /\ SentTags = << PROTO_BOOP_REJECT >>
    /\ Len(admitted) = BPM_LIMIT

\* bpmBoops.length < BPM_LIMIT and lastBPH + unsyncedBPH < BPH_LIMIT.
BelowLimits ==
    /\ Len(bpmBoops) < BPM_LIMIT
    /\ lastBPH + unsyncedBPH < BPH_LIMIT

\* C5 (no over-restriction): while bpmBoops is below BPM_LIMIT and lastBPH +
\* unsyncedBPH is below BPH_LIMIT, #getCooldown(now) is 0 and a boop request
\* that arrives with no active cooldown is admitted.
C5_NoOverRestriction ==
    [][ BelowLimits =>
            /\ GetCooldown(now) = 0
            /\ BoopStep /\ ~ActiveCooldown =>
                   /\ admitted' = Append(admitted, now)
                   /\ Len(sent') >= 1
                   /\ sent'[1][1] = PROTO_BOOP_REPLY ]_vars

\* A boop was admitted from below the limits, and left the session below
\* them.
C5_Witness ==
    /\ BelowLimits
    /\ Len(admitted) = 1
    /\ Len(sent) = 2
    /\ sent[1] = BoopReplyFrame(1)

\* C6 (close on too many cooldown fails), as the program does it: the
\* channel is closed with 1002 by the boop request that arrives during an
\* active cooldown when cooldownFails already equals CD_FAIL_LIMIT, that is
\* by the sixth; the requests before it are counted and leave the channel
\* open, and nothing else closes with 1002.
C6_ClosePastLimit ==
    [][ /\ BoopStep /\ ActiveCooldown /\ cooldownFails < CD_FAIL_LIMIT =>
               /\ cooldownFails' = cooldownFails + 1
               /\ ws' = "open" /\ closeCode' = 0
        /\ BoopStep /\ ActiveCooldown /\ cooldownFails = CD_FAIL_LIMIT =>
               /\ ws' = "closing"
               /\ closeCode' = TOO_MANY_COOLDOWN_FAILS_ERRCODE
        /\ closeCode' = TOO_MANY_COOLDOWN_FAILS_ERRCODE /\ closeCode # closeCode' =>
               BoopStep /\ ActiveCooldown /\ cooldownFails = CD_FAIL_LIMIT
      ]_vars

\* The channel was closed with 1002, by the request after the fifth fail.
C6_Witness ==
    /\ closeCode = TOO_MANY_COOLDOWN_FAILS_ERRCODE
    /\ cooldownFails = CD_FAIL_LIMIT + 1

\* C6 as stated: once cooldownFails has reached CD_FAIL_LIMIT the channel
\* is closed with 1002.
C6_CloseAtLimit ==
    cooldownFails >= CD_FAIL_LIMIT =>
        ws # "open" /\ closeCode = TOO_MANY_COOLDOWN_FAILS_ERRCODE

\* C7 (cooldown abuse): during an active cooldown cooldownFails counts the
\* boop requests since it was 0, and only they change it; the request that
\* finds it below CD_FAIL_LIMIT (the first to the fifth) is answered with
\* exactly one frame r<id>,<ms>, the request that finds it at CD_FAIL_LIMIT
\* (the sixth) closes the channel with 1002 and sends no frame.
C7_AbuseScenario ==
    [][ /\ BoopStep /\ ActiveCooldown /\ cooldownFails < CD_FAIL_LIMIT =>
               /\ \E data \in BoopFrames :
                      /\ sent' = << << PROTO_BOOP_REJECT >>
                                       \o ToString36(ParseInt36(Tail(data)))
                                       \o << "," >>
                                       \o ToString36(cooldownUntil - now) >>
               /\ cooldownFails' = cooldownFails + 1
               /\ closeCode' = 0
        /\ BoopStep /\ ActiveCooldown /\ cooldownFails >= CD_FAIL_LIMIT =>
               /\ sent' = << >>
               /\ closeCode' = TOO_MANY_COOLDOWN_FAILS_ERRCODE
        /\ ActiveCooldown /\ cooldownFails' # cooldownFails /\ session' = session =>
               BoopStep
      ]_vars

\* The sixth request found the channel open and closed it without a frame.
C7_Witness ==
    /\ ws = "closing"
    /\ closeCode = TOO_MANY_COOLDOWN_FAILS_ERRCODE
    /\ sent = << >>
    /\ ActiveCooldown

WellFormed(data) ==
    \/ data = << "h" >>
    \/ /\ Len(data) >= 2 /\ Len(data) <= 12
       /\ data[1] \in { "b", "d" }
       /\ \A i \in 2..Len(data) : data[i] \in Digit36Set

\* The malformed text frames among the frames the client sends.
Malformed == { data \in Frames : ~WellFormed(data) }

\* C9 (malformed text frame): a text frame that is not of the protocol
\* makes the server send exactly one i frame and changes nothing else: not
\* the cooldown, the counters, the windows, the heartbeat timer or the
\* channel.
C9_MalformedFrame ==
    [][ \A data \in Malformed :
            OnMessage(data) =>
                /\ sent' = << << PROTO_INVALID >> >>
                /\ UNCHANGED << now, chanVars, rateVars, bphVars, gbcVars,
                                storeVars, obsVars >>
      ]_vars

\* A malformed frame was answered during a cooldown the session keeps.
C9_Witness ==
    /\ sent = << << PROTO_INVALID >> >>
    /\ Malformed = InvalidFrames
    /\ ws = "open"
    /\ ActiveCooldown
    /\ cooldownFails >= 1

\* C10 (reply, then count): the step that admits a boop sends b<boopId> and
\* then c<count>, these two frames only, and count is at least one more
\* than the count the client was shown before.
C10_ReplyThenCount ==
    [][ BoopStep /\ admitted' # admitted =>
            /\ Len(sent') = 2
            /\ \E data \in BoopFrames :
                   /\ sent'[1] = << PROTO_BOOP_REPLY >>
                                     \o ToString36(ParseInt36(Tail(data)))
            /\ sent'[2][1] = PROTO_BOOP_COUNT
            /\ ParseInt36(Tail(sent'[2])) >= lastShown + 1
      ]_vars

\* A boop was admitted after the store had told the session of a boop of
\* another session, with an atomic add in flight.
C10_Witness ==
    /\ SentTags = << PROTO_BOOP_REPLY, PROTO_BOOP_COUNT >>
    /\ external = 1
    /\ gbcSyncPromise # 0
    /\ unsyncedGBC # 0
    /\ lastShown = StartGBC + 3

\* C11 (monotone display): while the store's gbc never decreases, the count
\* of every c frame a session sends is at least the count of the c frame it
\* sent before, whatever the interleaving of admitted boops, atomic adds
\* that succeed or fail, and change events of gbc.
C11_MonotoneDisplay ==
    [][ session' = session /\ gbc' >= gbc => lastShown' >= lastShown ]_vars

\* C12 (gbc only grows by atomic adds): no step of a session, its
\* initialization while other sessions add included, sets boop-count to an
\* absolute value; so what the store holds never goes down and no add of
\* another session is undone.
C12_OnlyAtomicAdd == [][ gbc' >= gbc ]_vars

\* C13 (own subtree only): no step of a session, its initialization while
\* the sessions of other clients push included, writes or deletes anything
\* under the subtree of another client: the entries of the other clients
\* stay in the store.
C13_OwnSubtreeOnly == [][ others' >= others ]_vars

\* An admitted boop not yet part of an atomic add has a sync ahead of it:
\* an add is in flight, whose completion starts or schedules the next sync,
\* or the trailing timer is armed and fires within GBC_SYNC_INTERVAL.
GbcSyncAhead ==
    ws = "open" /\ unsyncedGBC > 0 =>
        \/ gbcSyncPromise # 0
        \/ gbcSyncTimeout # 0 /\ gbcSyncTimeout <= now + GBC_SYNC_INTERVAL

\* C14 (GBC sync liveness): while the session stays open and the store
\* answers, every admitted boop becomes part of the delta of an atomic add
\* (unsyncedGBC is 0 again at the snapshot that takes it), and the session
\* is never left with unsynced boops, no add in flight and no trailing
\* timer armed.  A boop admitted at the last instant of the clock has its
\* sync beyond it.
C14_GbcSyncLiveness ==
    /\ []GbcSyncAhead
    /\ (ws = "open" /\ unsyncedGBC > 0 /\ now < MaxTime)
           ~> (unsyncedGBC = 0 \/ ws # "open")

\* The trailing timer fired while an add was in flight and did not arm
\* itself again; boops admitted meanwhile wait for the add to complete.
C14_Witness ==
    /\ ws = "open"
    /\ unsyncedGBC > 0
    /\ gbcSyncPromise # 0
    /\ gbcSyncTimeout = 0
    /\ now < MaxTime

\* The changes of the pushes in flight.
RECURSIVE SumPushes(_)
SumPushes(s) == IF s = << >> THEN 0 ELSE Head(s).change + SumPushes(Tail(s))

\* The changes of the entries this session has pushed to its subtree.
Pushed == SumChange([k \in DOMAIN bphStore \ DOMAIN openLedger |-> bphStore[k]])

\* Every admitted boop is in exactly one place: waiting in unsyncedBPH, in
\* a push in flight, or in an entry of boops-per-hour/<id>.
BphConserved == Len(admitted) = unsyncedBPH + SumPushes(pushes) + Pushed

\* The interval of an open session is armed and fires within
\* BPH_SYNC_INTERVAL.
BphSyncAhead ==
    ws = "open" =>
        bphSyncInterval # 0 /\ bphSyncInterval <= now + BPH_SYNC_INTERVAL

EarlyClose ==
    /\ session = 1 /\ now = 1
    /\ ws # "closed" /\ ws' = "closed"
    /\ Len(admitted) >= 1

\* C16 (shutdown flush): when N >= 1 boops were admitted and the channel
\* closes before any periodic sync has fired, the session has issued, the
\* flush included, one atomic add, of N, and one push, of
\* [now + ONE_HOUR, N]: after the close no boop is left unsynced, the add
\* of N is in flight (or, for N = 1, is the one already answered), and the
\* push of N is the only one in flight.
C16_ShutdownFlush ==
    [][ EarlyClose =>
            /\ unsyncedGBC' = 0
            /\ \/ gbcSyncPromise' = Len(admitted)
               \/ Len(admitted) = 1 /\ gbcSyncPromise' = 0
            /\ unsyncedBPH' = 0
            /\ Len(pushes') = 1
            /\ pushes'[1].validUntil = now + ONE_HOUR
            /\ pushes'[1].change = Len(admitted)
      ]_vars

\* The push of the flush alone.
C16_ShutdownPush ==
    [][ EarlyClose =>
            /\ unsyncedBPH' = 0
            /\ Len(pushes') = 1
            /\ pushes'[1].validUntil = now + ONE_HOUR
            /\ pushes'[1].change = Len(admitted)
      ]_vars

\* Sign-in, #initBPH or #initGBC has failed.
BootFailed ==
    boot.signIn = "failed" \/ boot.bph = "failed" \/ boot.gbc = "failed"

\* C17 (initialization failure): once #asyncInit has returned after a
\* failure of sign-in, of the BPH initialization or of the GBC
\* initialization, the channel is closed with 1000, no listener of the
\* channel is installed and the heartbeat timer is not armed; no frame at
\* all is sent before the listeners are installed, so none after a failure;
\* and the step that installs them, the success, sends c<lastGBC> and
\* nothing else.
C17_InitFailure ==
    /\ [](boot.settled /\ BootFailed =>
              /\ ws = "closing" /\ closeCode = INTERNAL_SERVER_ERROR_ERRCODE
              /\ ~boot.handlers
              /\ heartbeatTimeout = 0)
    /\ [](BootFailed => ~boot.handlers)
    /\ [](~boot.handlers => sent = << >>)
    /\ [][ ~boot.handlers /\ boot.handlers' =>
               /\ sent' = << BoopCountFrame(lastGBC') >>
               /\ ws' = "open" /\ heartbeatTimeout' # 0 ]_vars

\* #initGBC succeeded and a change of boop-count reached the session before
\* #initBPH failed and the channel was closed.
C17_Witness ==
    /\ boot.settled
    /\ boot.bph = "failed" /\ boot.gbc = "ok"
    /\ closeCode = INTERNAL_SERVER_ERROR_ERRCODE
    /\ lastGBC = StartGBC + 1
    /\ gbcSyncTimeout # 0

\* C18 (store failures are absorbed): an initialized session leaves "open"
\* in three ways only: the heartbeat timer fires (1001), a boop request
\* arrives after CD_FAIL_LIMIT failed ones (1002), or the client closes.  No
\* answer of the store, failure or success, to an atomic add, a push or a
\* removal closes the channel or sends a frame.
C18_StoreFailuresAbsorbed ==
    /\ [](closeCode \in { 0, NO_HEARTBEAT_ERRCODE,
                          TOO_MANY_COOLDOWN_FAILS_ERRCODE, CLIENT_CLOSE_CODE })
    /\ [][ ws = "open" /\ ws' # "open" =>
               \/ /\ ws' = "closing" /\ closeCode' = NO_HEARTBEAT_ERRCODE
                  /\ Due(heartbeatTimeout)
               \/ /\ ws' = "closing"
                  /\ closeCode' = TOO_MANY_COOLDOWN_FAILS_ERRCODE
                  /\ cooldownFails >= CD_FAIL_LIMIT
                  /\ cooldownFails' = cooldownFails + 1
               \/ ws' = "closed" /\ closeCode' = CLIENT_CLOSE_CODE ]_vars
    /\ [][ \/ gbcSyncPromise # 0 /\ gbcSyncPromise' # gbcSyncPromise
           \/ Len(pushes') < Len(pushes)
           \/ removes' # removes /\ removes' \subseteq removes
           => ws' = ws /\ closeCode' = closeCode /\ sent' = << >> ]_vars

\* The session is open after an atomic add, a push and a removal have
\* failed: the failed delta is shown twice, the boops of the failed push are
\* back in unsyncedBPH after the interval fired, an expired entry whose
\* timer fired is still in the store.
C18_Witness ==
    /\ ws = "open"
    /\ lastGBC + unsyncedGBC > StartGBC + Len(admitted)
    /\ pushes = << >> /\ unsyncedBPH = Len(admitted) /\ unsyncedBPH > 0
    /\ bphSyncInterval > 1 + BPH_SYNC_INTERVAL
    /\ \E k \in DOMAIN bphStore :
           /\ ValidUntil(bphStore[k]) <= now
           /\ k \notin removes
           /\ k \in DOMAIN bphRemoveTimeouts /\ bphRemoveTimeouts[k] = 0

\* The paths the sweep of a snapshot is to remove: every subtree that is
\* not a map, every malformed entry, every well-formed entry that expired
\* more than an hour before n.
StalePaths(snapshot, n) ==
    { << c >> : c \in { x \in DOMAIN snapshot.clients :
                            ~snapshot.clients[x].map } }
    \cup
    { p \in { << c, k >> : c \in DOMAIN snapshot.clients,
                            k \in 1..MaxCronKeys } :
          /\ snapshot.clients[p[1]].map
          /\ p[2] \in DOMAIN snapshot.clients[p[1]].entries
          /\ LET e == snapshot.clients[p[1]].entries[p[2]]
             IN  \/ ~(Len(e) = 2 /\ e[1] > 0)
                 \/ e[1] + ONE_HOUR < n }

\* C19 (janitor sweep completeness): for a snapshot of boops-per-hour that
\* is a map, the janitor issues a removal for every subtree that is not a
\* map, for every malformed entry and for every well-formed entry with
\* validUntil + ONE_HOUR < now; a malformed entry does not end the sweep.
C19_SweepComplete ==
    cron.ran /\ cron.snapshot.map =>
        StalePaths(cron.snapshot, cron.now) \subseteq cron.removals

\* C20 (janitor grace): the janitor issues no removal for a well-formed
\* entry with validUntil + ONE_HOUR >= now in a subtree that is a map.
C20_JanitorGrace ==
    cron.ran =>
        \A p \in cron.removals :
            Len(p) = 2 =>
                LET e == cron.snapshot.clients[p[1]].entries[p[2]]
                IN  Len(e) = 2 /\ e[1] > 0 => e[1] + ONE_HOUR < cron.now

\* The janitor removed an entry that expired more than an hour ago and
\* kept one whose hour ends at this very instant.
C20_Witness ==
    /\ cron.ran
    /\ \E p \in cron.removals :
           /\ Len(p) = 2
           /\ cron.snapshot.clients[p[1]].entries[p[2]] = << 1, 1 >>
    /\ \E c \in DOMAIN cron.snapshot.clients :
           /\ cron.snapshot.clients[c].map
           /\ \E k \in DOMAIN cron.snapshot.clients[c].entries :
                  /\ cron.snapshot.clients[c].entries[k] = << 2, 1 >>
                  /\ 2 + ONE_HOUR = cron.now
                  /\ << c, k >> \notin cron.removals

\* C21 (codec round trip): for every kind and every id, count or cooldown
\* of 1 to 11 base-36 digits, what the decoder of the receiver, the server
\* or the client, makes of the frame the sender built is the tuple that was
\* sent, every integer exactly.
C21_RoundTrip ==
    codec.stage = "decoded" =>
        codec.out = [kind |-> codec.kind, fields |-> codec.fields]

\* A tuple went through whose integers are all below 2^53.
C21_SafeRoundTrip ==
    /\ codec.stage = "decoded"
    /\ codec.fields # << >>
    /\ \A i \in 1..Len(codec.fields) : ~Unsafe(codec.fields[i])
    /\ codec.out = [kind |-> codec.kind, fields |-> codec.fields]

\* A step that handles a close event with a code other than 1002.
OtherClose ==
    \E code \in CloseCodes \ { TOO_MANY_COOLDOWN_FAILS_ERRCODE } :
        SocketClose(code)

\* C22 (client reconnect policy): after a close with code 1002, and until
\* the page itself calls connect() or reconnect(), the client has no socket
\* but the closed one, no backoff timer and no connect-on-focus, and no step
\* gives it a new socket.  After a close with any other code while
\* reconnectOnClose is set it connects again: at once, or on the next focus
\* of the window, or after a backoff timer whose delay is
\* min(1000 * 2^(k-1), 30000) ms, k the backoff timers set since the last
\* message; and the timer, when it fires, opens the new socket.
C22_ReconnectPolicy ==
    /\ [](conn.kicked =>
              /\ conn.ws = "closed"
              /\ conn.backoffTimeout = 0
              /\ ~conn.connectOnFocus
              /\ ~conn.reconnectOnClose /\ ~conn.reconnectImmediately)
    /\ [][ conn.kicked /\ conn'.gen # conn.gen =>
               PageConnect \/ PageReconnect ]_vars
    /\ [][ OtherClose /\ conn.reconnectOnClose =>
               \/ /\ conn.reconnectImmediately
                  /\ conn'.gen # conn.gen /\ conn'.ws = "connecting"
               \/ /\ ~conn.reconnectImmediately /\ ~conn.focused
                  /\ conn'.connectOnFocus /\ conn'.ws = "closed"
               \/ /\ ~conn.reconnectImmediately /\ conn.focused
                  /\ conn'.ws = "closed"
                  /\ conn'.sinceMessage = conn.sinceMessage + 1
                  /\ \E k \in 1..MaxAttempts :
                         /\ k = conn'.sinceMessage
                         /\ conn'.backoffTimeout =
                                IF 1000 * 2^(k - 1) < 30000
                                THEN 1000 * 2^(k - 1) ELSE 30000 ]_vars
    /\ [][ BackoffFire => conn'.gen # conn.gen /\ conn'.ws = "connecting" ]_vars
    /\ [](conn.reconnectAttempts = conn.sinceMessage)

\* The sixth close in a row without a message set the timer to the cap.
C22_BackoffCap ==
    /\ conn.sinceMessage = 6
    /\ conn.backoffTimeout = BACKOFF_MAX_MS
    /\ conn.ws = "closed"

\* The client was closed with 1002 while connect-on-focus was pending from
\* an earlier close, and the window has gained focus since.
C22_Witness ==
    /\ conn.kicked
    /\ conn.focused
    /\ conn.ws = "closed"
    /\ conn.gen = 1

\* The cooldown queries among the frames the client sends.
QueryFrames == { data \in Frames : Kind(data) = "query" }

\* A boop request at this instant would be admitted.
WouldAdmit == ENABLED (OnMessage(<< "b", "1" >>) /\ admitted' # admitted)

\* A boop request at this instant would be rejected with r1,<ms>.
WouldReject(ms) ==
    ENABLED (OnMessage(<< "b", "1" >>) /\ sent' = << BoopRejectFrame(1, ms) >>)

\* C23 (cooldown query): the step that handles d<q> sends exactly one
\* frame: d<q> alone if and only if a boop request at the same instant would
\* be admitted, otherwise d<q>,<ms>, and with the ms of the r frame whenever
\* a boop request at that instant would be answered with one; it admits
\* nothing and leaves unsyncedBPH, unsyncedGBC, lastGBC and cooldownFails as
\* they are.
C23_CooldownQuery ==
    [][ \A data \in QueryFrames :
            OnMessage(data) =>
                /\ Len(sent') = 1
                /\ sent' = << CooldownReplyFrame(IdOf(data)) >> <=> WouldAdmit
                /\ ~WouldAdmit =>
                       \E ms \in 0..ONE_HOUR :
                           sent' = << CooldownReplyMsFrame(IdOf(data), ms) >>
                /\ \A ms \in 0..ONE_HOUR :
                       WouldReject(ms) =>
                           sent' = << CooldownReplyMsFrame(IdOf(data), ms) >>
                /\ UNCHANGED << unsyncedBPH, unsyncedGBC, lastGBC,
                                cooldownFails, admitted >>
      ]_vars

\* A query found the window of the minute full and was the one to set the
\* cooldown: no boop request has failed.
C23_Witness ==
    /\ SentTags = << PROTO_COOLDOWN_REPLY >>
    /\ Len(sent[1]) > 2
    /\ ActiveCooldown
    /\ cooldownFails = 0
    /\ Len(admitted) = BPM_LIMIT

\* C24 (ledger mirror): after any sequence of child-added events
\* (well-formed, malformed, or for a key already mirrored) and child-removed
\* events (for a mirrored key or not), lastBPH is the sum of change over
\* the entries of the mirror #bph.
C24_MirrorSum == lastBPH = SumChange(bph)

\* A malformed addition and a removal of a key that is not mirrored leave
\* the mirror and lastBPH as they are, and the malformed addition issues
\* the removal of its key.
C24_Bystanders ==
    [][ /\ \A k \in DOMAIN bphStore :
               OnBPHChildAdded(k) /\ ~IsValidBPHEntry(bphStore[k]) =>
                   /\ UNCHANGED << bph, lastBPH, bphRemoveTimeouts >>
                   /\ k \in removes'
        /\ \A k \in notified \ DOMAIN bph :
               OnBPHChildRemoved(k) =>
                   UNCHANGED << bph, lastBPH, bphRemoveTimeouts >>
      ]_vars

\* A malformed entry was reported and its removal issued, with the mirror
\* holding a well-formed one.
C24_BystanderSeen ==
    /\ \E k \in removes : k \in DOMAIN bphStore /\ ~IsValidBPHEntry(bphStore[k])
    /\ DOMAIN bph # {}
    /\ lastBPH = SumChange(bph)

\* The atomic add in flight is answered.
GbcSettle == GbcAddOk \/ GbcAddFail

\* A step of a handler that calls #gbcSync: an admitted boop, the trailing
\* timer, the close of the channel.
GbcSyncCall ==
    \/ BoopStep /\ admitted' # admitted
    \/ GbcTimerFire
    \/ ClientClose
    \/ CloseEvent

\* C25 (GBC single-flight): the promise of an atomic add in flight is
\* replaced by nothing but its own completion, so a session has one add in
\* flight at most; and a handler that calls #gbcSync while an add is in
\* flight writes nothing to the store, leaves lastGBC, lastGBCSync and the
\* promise as they are and unsyncedGBC but for the boop it has just
\* admitted, arms no timer, and the shutdown flush is given the promise in
\* flight to await.
C25_SingleFlight ==
    /\ [][ gbcSyncPromise # 0 /\ gbcSyncPromise' # gbcSyncPromise =>
               GbcSettle ]_vars
    /\ [][ gbcSyncPromise # 0 /\ GbcSyncCall =>
               /\ UNCHANGED << gbcSyncPromise, lastGBC, lastGBCSync, gbc >>
               /\ unsyncedGBC' = unsyncedGBC + Len(admitted') - Len(admitted)
               /\ gbcSyncTimeout' \in { 0, gbcSyncTimeout }
               /\ ClientClose \/ CloseEvent => flush'.gbc ]_vars

\* The channel closed while an atomic add was in flight and boops admitted
\* after its snapshot were waiting.
C25_Witness ==
    /\ ws = "closed"
    /\ flush.gbc
    /\ gbcSyncPromise # 0
    /\ unsyncedGBC >= 1
    /\ gbcSyncTimeout = 0


\* A step in which an atomic add is issued: by a handler that found none in
\* flight, or by the .finally of the add that has just been answered.
AddIssued == gbcSyncPromise' # 0 /\ (gbcSyncPromise = 0 \/ GbcSettle)

\* The step in which the channel closes: the call of the shutdown flush.
Closing == ClientClose \/ CloseEvent

\* The boops a step admits.
Boops == Len(admitted') - Len(admitted)

\* The delta the .catch of a failed add gives back in a step.
Restored == IF GbcAddFail THEN gbcSyncPromise ELSE 0

\* C26 (GBC write coalescing): but for the call of the shutdown flush, an
\* atomic add is issued only when GBC_SYNC_INTERVAL has passed since
\* lastGBCSync, and it sets lastGBCSync to the time of the call;
\* lastGBCSync never decreases, so it is never before the previous add and
\* successive adds are an interval apart.  The delta of every add is what
\* unsyncedGBC has gathered since the previous snapshot emptied it: the
\* boops admitted and the deltas of failed adds, and nothing else.
C26_Coalescing ==
    /\ [][ AddIssued /\ ~Closing =>
               /\ now - lastGBCSync >= GBC_SYNC_INTERVAL
               /\ lastGBCSync' = now ]_vars
    /\ [][ lastGBCSync' >= lastGBCSync ]_vars
    /\ [][ AddIssued =>
               /\ gbcSyncPromise' = unsyncedGBC + Boops + Restored
               /\ unsyncedGBC' = 0 ]_vars
    /\ [][ ~AddIssued => unsyncedGBC' = unsyncedGBC + Boops + Restored ]_vars

\* Two boops admitted within one interval went out in one atomic add.
C26_Witness ==
    /\ ws = "open"
    /\ gbcSyncPromise = 2
    /\ unsyncedGBC = 0
    /\ lastGBCSync = now
    /\ Len(admitted) >= 2


\* The atomic add #onClose issued is in flight: only that call of #gbcSync
\* is made with a time ahead of the clock, and a call that finds an add in
\* flight leaves lastGBCSync alone.
FinalAddInFlight == gbcSyncPromise # 0 /\ lastGBCSync > now

\* C27 (shutdown release ordering): the store handle is released only when
\* the atomic add and the push of the shutdown flush have been answered;
\* deleteApp is not called while either is in flight.
C27_ReleaseOrdering ==
    [][ Release => ~FinalAddInFlight /\ ~flush.bph /\ ~flush.gbc ]_vars

\* The push half: the push of the flush is not in flight when the handle is
\* released.
C27_PushAwaited ==
    [][ Release => \A i \in 1..Len(pushes) : ~pushes[i].final ]_vars

\* The handle is released and the add of the flush is still in flight.
C27_ReleasedEarly == flush.released /\ FinalAddInFlight


\* C28 (shutdown teardown): once the channel has closed the GBC value
\* listener and the BPH child listeners are off, and the GBC sync timer,
\* the BPH sync interval, every per-entry removal timer and the heartbeat
\* timer are cancelled and stay so, the final #gbcSync included.
C28_Teardown ==
    ws = "closed" =>
        /\ ~listening
        /\ gbcSyncTimeout = 0
        /\ bphSyncInterval = 0
        /\ bphRemoveTimeouts = EmptyMap
        /\ heartbeatTimeout = 0

\* Every timer but the GBC sync timer, and the listeners.
C28_OtherTimers ==
    ws = "closed" =>
        /\ ~listening
        /\ bphSyncInterval = 0
        /\ bphRemoveTimeouts = EmptyMap
        /\ heartbeatTimeout = 0

\* The closed session's GBC sync timer fires and issues an atomic add.
C28_LateAdd ==
    /\ ws = "closed" /\ flush.released
    /\ gbcSyncPromise # 0
    /\ lastGBCSync = now


\* C29 (final flush completeness): when the shutdown flush has finished and
\* the store has failed no operation, no admitted boop is left unsynced,
\* whatever the state of the session was when the channel closed.
C29_FlushComplete ==
    [][ Release => unsyncedGBC' = 0 /\ unsyncedBPH' = 0 ]_vars

\* The BPH half: the flush leaves no boop out of its push.
C29_PushComplete == [][ Release => unsyncedBPH' = 0 ]_vars

\* The flush has finished, every add was answered with success, and a boop
\* admitted after the snapshot of the add in flight at the close is in no
\* add.
C29_LeftBehind ==
    /\ flush.released
    /\ gbcSyncPromise = 0
    /\ unsyncedGBC >= 1
    /\ gbcSyncTimeout = 0


\* C30 (failed atomic add): the failure of an atomic add gives its delta
\* back to unsyncedGBC and leaves the displayed count
\* lastGBC + unsyncedGBC as it was, the delta being shown once.
C30_FailedAdd ==
    [][ GbcAddFail =>
            lastGBC' + unsyncedGBC' = lastGBC + unsyncedGBC ]_vars

\* The first half: the delta is given back to unsyncedGBC.
C30_DeltaRestored ==
    [][ GbcAddFail /\ gbcSyncPromise' = 0 =>
            unsyncedGBC' = unsyncedGBC + gbcSyncPromise ]_vars

\* The store holds its first value, no change event is waiting, and the
\* session counts more than that value and every boop it admitted.
C30_Inflated ==
    /\ gbc = StartGBC /\ gbcEvents = << >> /\ external = 0
    /\ gbcSyncPromise = 0
    /\ lastGBC + unsyncedGBC > StartGBC + Len(admitted)


\* The sum of lastBPH + unsyncedBPH that is left when the first i entries
\* of the mirror, in ascending validUntil, have been subtracted.
Remaining(i) ==
    LET keys == SortedKeys(bph)
    IN  lastBPH + unsyncedBPH
            - SumChange([k \in { keys[j] : j \in 1..i } |-> bph[k]])

\* The entries after whose subtraction the sum is below BPH_LIMIT.
Crossings == { i \in 1..Len(SortedKeys(bph)) : Remaining(i) < BPH_LIMIT }

\* soonest: the validUntil of the first such entry, or now + ONE_HOUR.
Soonest ==
    IF Crossings = {} THEN now + ONE_HOUR
    ELSE ValidUntil(bph[SortedKeys(bph)[
             CHOOSE i \in Crossings : \A j \in Crossings : i <= j]])

\* C31 (BPH cooldown computation): a boop request that consults
\* #getCooldown while lastBPH + unsyncedBPH >= BPH_LIMIT is rejected with
\* the one frame r<id>,<max(0, soonest - now)> and nothing is admitted,
\* soonest being the validUntil of the first entry of the mirror, in
\* ascending validUntil, after whose subtraction the sum is below
\* BPH_LIMIT, or now + ONE_HOUR when there is none; with the single entry
\* (now + ONE_HOUR, BPH_LIMIT) the cooldown is ONE_HOUR.
C31_BPHCooldown ==
    /\ [][ \A data \in BoopFrames :
             /\ OnMessage(data) /\ ~ActiveCooldown
             /\ lastBPH + unsyncedBPH >= BPH_LIMIT
             => /\ sent' = << BoopRejectFrame(IdOf(data),
                                              Max(0, Soonest - now)) >>
                /\ cooldownUntil' = now + Max(0, Soonest - now)
                /\ admitted' = admitted ]_vars
    /\ [][ \A data \in BoopFrames :
             /\ OnMessage(data) /\ ~ActiveCooldown
             /\ \E k \in DOMAIN bph :
                    /\ DOMAIN bph = {k}
                    /\ bph[k] = << now + ONE_HOUR, BPH_LIMIT >>
             /\ lastBPH = BPH_LIMIT
             => sent' = << BoopRejectFrame(IdOf(data), ONE_HOUR) >> ]_vars

\* A boop was rejected after a walk that passed an entry which did not
\* bring the sum below the limit and stopped at the second.
C31_Witness ==
    /\ SentTags = << PROTO_BOOP_REJECT >>
    /\ cooldownFails = 0
    /\ Len(SortedKeys(bph)) >= 2
    /\ Crossings # {}
    /\ 1 \notin Crossings
    /\ cooldownUntil = Soonest

\* The single entry (now + ONE_HOUR, BPH_LIMIT): the cooldown is ONE_HOUR.
C31_SingleEntry ==
    /\ SentTags = << PROTO_BOOP_REJECT >>
    /\ \E k \in DOMAIN bph :
           DOMAIN bph = {k} /\ bph[k] = << now + ONE_HOUR, BPH_LIMIT >>
    /\ cooldownUntil = now + ONE_HOUR
    /\ admitted = << >>

\* The entry the walk stops at has expired and is still mirrored: the boop
\* is rejected with a cooldown of 0.
C31_ZeroCooldown ==
    /\ SentTags = << PROTO_BOOP_REJECT >>
    /\ cooldownFails = 0
    /\ cooldownUntil = now
    /\ sent = << BoopRejectFrame(1, 0) >>


\* The walk ran out of entries with the sum still at the limit: the boop
\* is rejected with a cooldown of ONE_HOUR.
C31_Exhausted ==
    /\ SentTags = << PROTO_BOOP_REJECT >>
    /\ lastBPH + unsyncedBPH >= BPH_LIMIT
    /\ Crossings = {}
    /\ cooldownUntil = now + ONE_HOUR


\* BPM_LIMIT boops were admitted at time T and none since, and the hourly
\* sum is below its limit.
FullWindowAt(T) ==
    /\ Len(bpmBoops) = BPM_LIMIT
    /\ \A i \in 1..Len(bpmBoops) : bpmBoops[i] = T
    /\ lastBPH + unsyncedBPH < BPH_LIMIT

\* C32 (BPM boundary): after BPM_LIMIT boops admitted at time T, a boop
\* request at T + ONE_MINUTE - 1 is rejected with a cooldown of exactly 1,
\* and a boop request at T + ONE_MINUTE is admitted: the expired timestamps
\* are pruned and no cooldown remains.
C32_BpmBoundary ==
    /\ [][ \A data \in BoopFrames :
             /\ OnMessage(data) /\ ~ActiveCooldown
             /\ FullWindowAt(now - (ONE_MINUTE - 1))
             => /\ sent' = << BoopRejectFrame(IdOf(data), 1) >>
                /\ cooldownUntil' = now + 1
                /\ admitted' = admitted
                /\ bpmBoops' = bpmBoops ]_vars
    /\ [][ \A data \in BoopFrames :
             /\ OnMessage(data)
             /\ FullWindowAt(now - ONE_MINUTE)
             => /\ Len(sent') = 2
                /\ sent'[1] = BoopReplyFrame(IdOf(data))
                /\ admitted' = Append(admitted, now)
                /\ bpmBoops' = << now >>
                /\ cooldownUntil' = 0 ]_vars

\* The boop at T + ONE_MINUTE - 1 was rejected with a cooldown of 1.
C32_Witness ==
    /\ FullWindowAt(now - (ONE_MINUTE - 1))
    /\ sent = << BoopRejectFrame(1, 1) >>
    /\ cooldownUntil = now + 1
    /\ cooldownFails = 0

\* The boop at T + ONE_MINUTE was admitted and the window holds it alone.
C32_Admitted ==
    /\ Len(admitted) = BPM_LIMIT + 1
    /\ \A i \in 1..BPM_LIMIT : admitted[i] = now - ONE_MINUTE
    /\ admitted[BPM_LIMIT + 1] = now
    /\ bpmBoops = << now >>
    /\ cooldownUntil = 0
    /\ sent[1] = BoopReplyFrame(1)


\* A frame that reports a cooldown of 0: r<id>,0 or d<id>,0.
ZeroCooldownFrames ==
    { BoopRejectFrame(1, 0), CooldownReplyMsFrame(1, 0) }

\* Under SpecEarliest no frame reports a cooldown of 0, so a non-zero
\* cooldownUntil is the t + ms of a report with ms > 0, and no boop was
\* admitted since that report.
C33_Positive == \A i \in 1..Len(sent) : sent[i] \notin ZeroCooldownFrames

\* C33 (the cooldown is the earliest admission time): when a boop request
\* or a query at t has reported a cooldown ms > 0, a boop request at a time
\* >= t + ms, no boop having been admitted in between, is admitted.
C33_EarliestAdmission ==
    [][ \A data \in BoopFrames :
            /\ OnMessage(data)
            /\ cooldownUntil # 0 /\ now >= cooldownUntil
            => /\ admitted' = Append(admitted, now)
               /\ sent'[1] = BoopReplyFrame(IdOf(data)) ]_vars

\* A boop request at the end of the cooldown it was told of is rejected
\* again, with a further cooldown.
C33_RejectedAgain ==
    /\ SentTags = << PROTO_BOOP_REJECT >>
    /\ cooldownFails = 0
    /\ cooldownUntil > now
    /\ Len(bpmBoops) = BPM_LIMIT
    /\ lastBPH + unsyncedBPH < BPH_LIMIT
    /\ admitted = << 1, 1 >>
    /\ now = 2


\* C34 (bpmWindow pruning): after every handler of a session, that is
\* after every step but the passing of time, bpmBoops holds only
\* timestamps t with now - t < ONE_MINUTE.
C34_PrunedWindow ==
    [][ now' = now =>
            \A i \in 1..Len(bpmBoops') : now' - bpmBoops'[i] < ONE_MINUTE ]_vars

\* A boop was admitted into a window that still holds a timestamp a minute
\* old.
C34_StaleKept ==
    /\ Len(sent) = 2 /\ sent[1] = BoopReplyFrame(1)
    /\ Len(bpmBoops) = 2
    /\ now - bpmBoops[1] >= ONE_MINUTE
    /\ bpmBoops[2] = now


\* C35 (cooldownFails): the counter goes up by one with every boop request
\* handled during an active cooldown, is set to 0 by the admission of a
\* boop and by nothing else, and is left alone by every other step: the
\* boop request that establishes a cooldown, a cooldown query, the end of a
\* cooldown, timers and store events.  So it is the number of boop requests
\* refused during an active cooldown since the last admitted boop.
C35_CooldownFails ==
    /\ [][ BoopStep /\ ActiveCooldown =>
               cooldownFails' = cooldownFails + 1 ]_vars
    /\ [][ BoopStep /\ ~ActiveCooldown /\ admitted' = admitted =>
               /\ cooldownFails' = cooldownFails
               /\ cooldownUntil' > 0 ]_vars
    /\ [][ admitted' # admitted => BoopStep /\ cooldownFails' = 0 ]_vars
    /\ [][ ~BoopStep => cooldownFails' = cooldownFails ]_vars
    /\ [][ cooldownFails # 0 /\ cooldownFails' = 0 =>
               admitted' # admitted ]_vars

\* A cooldown ended, the next boop request established a new one, and the
\* fail counted during the first is still counted: the session started on
\* an entry that expires at 2, admitted two boops at 1, rejected a third
\* for the hour, counted a fourth, and at 2 rejected a fifth for the minute.
C35_Witness ==
    /\ \E k \in DOMAIN openLedger : openLedger[k] = << 2, 1 >>
    /\ admitted = << 1, 1 >>
    /\ now = 2
    /\ cooldownUntil = 1 + ONE_MINUTE
    /\ cooldownFails = 1
    /\ sent = << BoopRejectFrame(1, ONE_MINUTE - 1) >>

\* A query during an active cooldown, after a counted fail.
C35_QuerySeen ==
    /\ ActiveCooldown
    /\ cooldownFails = 2
    /\ sent = << CooldownReplyMsFrame(1, cooldownUntil - now) >>


\* The sum of the deltas of the atomic adds of this session that the store
\* has applied: boop-count changes by these adds and by the other sessions'
\* increments only.
AddedGBC == gbc - StartGBC - external

\* C36 (GBC conservation): in every state the number of boops the session
\* has admitted is the sum of the deltas of its completed atomic adds, plus
\* the delta of the add in flight, plus unsyncedGBC.
C36_Conservation ==
    Len(admitted) = AddedGBC + gbcSyncPromise + unsyncedGBC

\* The steps of the ledger of C36: a completed add moves its delta into the
\* store, a failed add moves it nowhere but back, an admission adds one
\* boop, and no step takes a boop out of the three places or puts one in
\* twice.
C36_Moves ==
    /\ [][ GbcAddOk => AddedGBC' = AddedGBC + gbcSyncPromise ]_vars
    /\ [][ GbcAddFail =>
               /\ AddedGBC' = AddedGBC
               /\ gbcSyncPromise' + unsyncedGBC'
                      = gbcSyncPromise + unsyncedGBC ]_vars
    /\ [][ gbcSyncPromise' + unsyncedGBC' + AddedGBC'
               = gbcSyncPromise + unsyncedGBC + AddedGBC
                     + Len(admitted') - Len(admitted) ]_vars

\* After a failed add: its delta went back to unsyncedGBC and out again
\* with the trailing timer, a second boop was admitted while that add was
\* in flight, and the count the session shows is above everything
\* admitted, which only a failed add brings about.
C36_Witness ==
    /\ Len(admitted) = 2
    /\ gbcSyncPromise = 1
    /\ unsyncedGBC = 1
    /\ AddedGBC = 0
    /\ lastGBC + unsyncedGBC > StartGBC + external + Len(admitted)

\* After a failed add and a completed one: the store holds one boop of the
\* session, the other waits in unsyncedGBC.
C36_Completed ==
    /\ Len(admitted) = 2
    /\ AddedGBC = 1
    /\ unsyncedGBC = 1
    /\ gbcSyncPromise = 0
    /\ lastGBC + unsyncedGBC > StartGBC + external + Len(admitted)


\* C37 (bounded window): #bpmBoops never holds more than BPM_LIMIT
\* timestamps, whatever boop requests and cooldown queries arrive.
C37_BoundedWindow == Len(bpmBoops) <= BPM_LIMIT

\* The steps that keep the bound: a request that finds the window full
\* either is refused, or is admitted after the filter has dropped the
\* oldest timestamp; a query never lengthens the window.
C37_FullWindow ==
    /\ [][ BoopStep /\ Len(bpmBoops) = BPM_LIMIT /\ admitted' # admitted =>
               /\ now - bpmBoops[1] >= ONE_MINUTE
               /\ Len(bpmBoops') <= BPM_LIMIT
               /\ bpmBoops'[Len(bpmBoops')] = now ]_vars
    /\ [][ ~BoopStep => Len(bpmBoops') <= Len(bpmBoops) ]_vars

\* A boop admitted on a full window: boops at 1 and 2 filled it, and at
\* 1 + ONE_MINUTE the filter dropped the first and the third took its place.
C37_Witness ==
    /\ admitted = << 1, 2, 1 + ONE_MINUTE >>
    /\ bpmBoops = << 2, 1 + ONE_MINUTE >>
    /\ Len(bpmBoops) = BPM_LIMIT

\* A query answered on a full window that it left full.
C37_QueryOnFull ==
    /\ Len(bpmBoops) = BPM_LIMIT
    /\ cooldownFails = 0
    /\ lastBPH + unsyncedBPH < BPH_LIMIT
    /\ ActiveCooldown
    /\ sent = << CooldownReplyMsFrame(1, cooldownUntil - now) >>

\* A query on a full window whose oldest boop was a minute old: the filter
\* ran and the query reported no cooldown.
C37_QueryPruned ==
    /\ Len(admitted) = BPM_LIMIT
    /\ Len(bpmBoops) < BPM_LIMIT
    /\ sent = << CooldownReplyFrame(1) >>


\* C38 (no leak on initialization failure): once the channel of a session
\* whose initialization failed has closed, the session holds no BPH sync
\* interval, no GBC sync timer and no subscription to the store.
C38_NoLeak ==
    ws = "closed" /\ BootFailed =>
        /\ bphSyncInterval = 0
        /\ gbcSyncTimeout = 0
        /\ ~listening

\* The part that holds: a failed sign-in leaves nothing behind, neither
\* initializer having started.
C38_SignInFailure ==
    boot.signIn = "failed" =>
        /\ bphSyncInterval = 0
        /\ gbcSyncTimeout = 0
        /\ ~listening

\* #initBPH succeeded, #initGBC failed at its read, the channel has closed
\* and the BPH sync interval is still set.
C38_IntervalLeft ==
    /\ ws = "closed" /\ closeCode = INTERNAL_SERVER_ERROR_ERRCODE
    /\ boot.bph = "ok" /\ boot.gbc = "failed"
    /\ bphSyncInterval # 0
    /\ gbcSyncTimeout = 0 /\ ~listening

\* #initGBC succeeded, #initBPH failed at its first read, the channel has
\* closed, and the subscription to boop-count has delivered a change of
\* another session since: the timer and the subscription are still there.
C38_SubscriptionLeft ==
    /\ ws = "closed" /\ closeCode = INTERNAL_SERVER_ERROR_ERRCODE
    /\ boot.bph = "failed" /\ boot.gbc = "ok"
    /\ bphSyncInterval = 0
    /\ gbcSyncTimeout # 0 /\ listening
    /\ external = 1 /\ gbcEvents = << >> /\ lastGBC = gbc

\* A change of boop-count is delivered to a session whose channel has
\* closed after a failed initialization.
C38_LateDelivery ==
    [][ OnGBCChange => ~(ws = "closed" /\ BootFailed) ]_vars


\* disconnect() has been called and neither connect() nor reconnect()
\* since: reconnectOnClose is cleared by disconnect() and by a close with
\* TOO_MANY_COOLDOWN_FAILS_ERRCODE only, and set by connect() and
\* reconnect() only.
Disconnected == ~conn.reconnectOnClose /\ ~conn.kicked

\* C39 (disconnect is sticky): after disconnect() the client makes no new
\* WebSocket until the page calls connect() or reconnect(), whatever the
\* window and the old socket do.
C39_StickyDisconnect ==
    [][ Disconnected /\ conn'.gen # conn.gen =>
            PageConnect \/ PageReconnect ]_vars

\* The part that holds: after disconnect() no backoff timer is left, and
\* the close of the old socket makes no new one.
C39_NoTimerNoRetry ==
    /\ [](Disconnected => conn.backoffTimeout = 0)
    /\ [][ Disconnected /\ (\E code \in CloseCodes : SocketClose(code)) =>
               conn'.gen = conn.gen /\ conn'.backoffTimeout = 0 ]_vars

\* disconnect() was called on a client that waits for the window: the
\* socket is closed, nothing is scheduled, and connectOnFocus is still set.
C39_FlagLeft ==
    /\ Disconnected
    /\ conn.ws = "closed"
    /\ conn.backoffTimeout = 0
    /\ ~conn.focused
    /\ conn.connectOnFocus

\* The window gains focus after disconnect() and a new WebSocket is made.
C39_FocusConnects ==
    [][ Disconnected /\ WindowFocus => conn'.gen = conn.gen ]_vars


\* The ids in #pendingBoops (k = "boop") and #pendingCooldownQueries
\* (k = "query").
PendingIds(k) == DOMAIN conn.requests.pending[k]

\* C40 (pending requests of the client): the close of the socket rejects
\* every pending boop and every pending cooldown query with
\* MareNetworkError, leaves both maps empty and none of their timers set;
\* and no promise is settled twice, whatever the order of replies, rejects,
\* local timeouts and closes: a promise is in its map exactly as long as
\* it is not settled, and a timer is set only for a promise in the map.
C40_PendingRequests ==
    /\ [][ (\E code \in CloseCodes : SocketClose(code)) =>
               \A k \in RequestKinds :
                   /\ DOMAIN conn'.requests.pending[k] = {}
                   /\ conn'.requests.timeouts[k] \cap PendingIds(k) = {}
                   /\ \A id \in PendingIds(k) :
                          conn'.requests.settled[k][id] = << "network" >>
                   /\ \A id \in DOMAIN conn.requests.settled[k] \ PendingIds(k) :
                          conn'.requests.settled[k][id]
                              = conn.requests.settled[k][id] ]_vars
    /\ [](\A k \in RequestKinds :
              /\ \A id \in DOMAIN conn.requests.settled[k] :
                     /\ Len(conn.requests.settled[k][id]) <= 1
                     /\ id \in PendingIds(k)
                            <=> conn.requests.settled[k][id] = << >>
              /\ conn.requests.timeouts[k] \subseteq PendingIds(k))

\* A boop and a cooldown query were pending when the socket closed: both
\* were rejected with MareNetworkError, the maps are empty and no timer is
\* left.
C40_Witness ==
    /\ conn.ws = "closed"
    /\ conn.requests.settled["boop"] = Put(EmptyMap, 1, << "network" >>)
    /\ conn.requests.settled["query"] = Put(EmptyMap, 1, << "network" >>)
    /\ \A k \in RequestKinds :
           PendingIds(k) = {} /\ conn.requests.timeouts[k] = {}

\* A boop timed out locally and the socket closed afterwards with a query
\* pending: the boop keeps its one settlement.
C40_TimeoutThenClose ==
    /\ conn.ws = "closed"
    /\ conn.requests.settled["boop"] = Put(EmptyMap, 1, << "timeout" >>)
    /\ conn.requests.settled["query"] = Put(EmptyMap, 1, << "network" >>)

\* Two boops on two sockets: the first was accepted, the second rejected by
\* the server, and the socket has closed since.
C40_RepliesThenClose ==
    /\ conn.ws = "closed"
    /\ conn.requests.settled["boop"]
           = Put(Put(EmptyMap, 1, << "accepted" >>), 2, << "rejected" >>)

\* No close finds a local timer set.  It does not hold: requests with a
\* timeout are pending at a close, and the wrapped reject clears the timer.
C40_TimerCleared ==
    [][ (\E code \in CloseCodes : SocketClose(code)) =>
            \A k \in RequestKinds : conn.requests.timeouts[k] = {} ]_vars

====
